---- MODULE Spec2Model ----
(***************************************************************************)
(* Instrument session adapters of measurement-control-drivers:             *)
(* SpectrumAnalyzer (spectrum_analyzer_scpi.py), VNA (vna_rs_znl20.py),    *)
(* AWG_Rigol_DG922Pro (awg_rigol_dg922pro.py) and AnaPico_sin20G           *)
(* (signal_generator_anapico_apsin20g.py).                                 *)
(*                                                                         *)
(* The drivers are synchronous and single-threaded: a method call runs to  *)
(* its return or to the exception it raises.  A method is an operator from *)
(* the state before the call to the SET of its possible outcomes (which    *)
(* I/O attempts fail at the transport and which text the instrument        *)
(* replies are the environment's choice); an action is one call.  Every    *)
(* I/O attempt on the handle is recorded, in order, in the call's log.     *)
(***************************************************************************)
EXTENDS Integers, Sequences, FiniteSets, TLC

VARIABLES
    drv,    \* the driver class of the session: "SA", "VNA", "AWG", "LO"
    inst,   \* the handle, the resource manager and the instrument behind them
    call,   \* the last method called, with its arguments
    log,    \* the I/O attempts of the last call on the handle, in order
    res,    \* how the last call ended: its exception (or none) and its value
    self    \* the adapter's fields: its handle (held or None), idn and vendor

vars == <<drv, inst, call, log, res, self>>

(***************************************************************************)
(* Bounds of the model.                                                    *)
(***************************************************************************)
MaxFreq == 2        \* frequencies are 0..MaxFreq
MaxPoints == 2      \* sweep point counts are 1..MaxPoints
MaxErrQueue == 2    \* errors pending in the instrument's queue at most
MaxReadsArg == 3    \* check_errors(max_reads) is called with 0..MaxReadsArg
MaxReplyLen == 2    \* characters of a trace reply at most
MaxTokens == 3      \* tokens of a trace reply built from tokens at most
MaxMarkers == 3     \* clear_markers is called with max_markers in 0..MaxMarkers
MaxAxisPoints == 6  \* sweep point counts read back for an axis are 1..MaxAxisPoints
Significand == 3    \* bits in the significand of a float (Python's has 53)

Freqs == 0..MaxFreq
Points == 1..MaxPoints

(***************************************************************************)
(* Text.  A text is a sequence of one-character strings; numbers travel as *)
(* decimal text and are parsed back by float().                            *)
(***************************************************************************)
Digits == <<"0", "1", "2", "3", "4", "5", "6", "7", "8", "9">>

DigitVal(c) == (CHOOSE i \in 1..10 : Digits[i] = c) - 1

IsDigit(c) == \E i \in 1..10 : Digits[i] = c

IsSpace(c) == c \in {" ", "\n"}

RECURSIVE FmtNat(_)
FmtNat(n) == IF n < 10 THEN <<Digits[n + 1]>>
             ELSE FmtNat(n \div 10) \o <<Digits[(n % 10) + 1]>>

\* the instrument's decimal rendering of an integer
FmtNum(n) == IF n < 0 THEN <<"-">> \o FmtNat(-n) ELSE FmtNat(n)

RECURSIVE lstrip(_)
lstrip(t) == IF t # <<>> /\ IsSpace(Head(t)) THEN lstrip(Tail(t)) ELSE t

RECURSIVE rstrip(_)
rstrip(t) == IF t # <<>> /\ IsSpace(t[Len(t)])
             THEN rstrip(SubSeq(t, 1, Len(t) - 1)) ELSE t

\* str.strip()
strip(t) == rstrip(lstrip(t))

Lowercase == <<"a", "b", "c", "d", "e", "f", "g", "h", "i", "j", "k", "l", "m",
               "n", "o", "p", "q", "r", "s", "t", "u", "v", "w", "x", "y", "z">>
Uppercase == <<"A", "B", "C", "D", "E", "F", "G", "H", "I", "J", "K", "L", "M",
               "N", "O", "P", "Q", "R", "S", "T", "U", "V", "W", "X", "Y", "Z">>

\* str.upper()
upper(t) ==
    [i \in 1..Len(t) |->
        IF \E k \in 1..26 : Lowercase[k] = t[i]
        THEN Uppercase[CHOOSE k \in 1..26 : Lowercase[k] = t[i]] ELSE t[i]]

\* str.startswith(prefix)
startswith(t, p) == Len(t) >= Len(p) /\ SubSeq(t, 1, Len(p)) = p

\* str.replace(old, new) for one-character old and new
replace(t, old, new) == [i \in 1..Len(t) |-> IF t[i] = old THEN new ELSE t[i]]

RECURSIVE split(_, _)
\* str.split(sep): the pieces between the separators, empty pieces kept
split(t, sep) ==
    IF \A i \in 1..Len(t) : t[i] # sep THEN <<t>>
    ELSE LET k == CHOOSE i \in 1..Len(t) :
                      t[i] = sep /\ \A j \in 1..(i - 1) : t[j] # sep
         IN <<SubSeq(t, 1, k - 1)>> \o split(SubSeq(t, k + 1, Len(t)), sep)

RECURSIVE NatVal(_)
NatVal(t) == IF Len(t) = 1 THEN DigitVal(t[1])
             ELSE 10 * NatVal(SubSeq(t, 1, Len(t) - 1)) + DigitVal(t[Len(t)])

AllDigits(t) == t # <<>> /\ \A i \in 1..Len(t) : IsDigit(t[i])

\* float(text) raises ValueError unless the text, surrounding white space
\* dropped, is a number
FloatOk(t) ==
    LET u == strip(t)
    IN \/ AllDigits(u)
       \/ u # <<>> /\ Head(u) \in {"-", "+"} /\ AllDigits(Tail(u))

\* float(text) where it parses
FloatVal(t) ==
    LET u == strip(t)
    IN IF Head(u) = "-" THEN -NatVal(Tail(u))
       ELSE IF Head(u) = "+" THEN NatVal(Tail(u))
       ELSE NatVal(u)

(***************************************************************************)
(* Floating point.  A float is a fraction <<n, d>> in lowest terms whose   *)
(* value fits a significand of Significand bits; every arithmetic result   *)
(* is rounded to the nearest such value, ties to the even significand.     *)
(***************************************************************************)
RECURSIVE GCD(_, _)
GCD(a, b) == IF b = 0 THEN a ELSE GCD(b, a % b)

Abs(n) == IF n < 0 THEN -n ELSE n

\* the fraction n/d (d > 0) in lowest terms
Frac(n, d) == LET g == GCD(Abs(n), d) IN IF n = 0 THEN <<0, 1>> ELSE <<n \div g, d \div g>>

RECURSIVE Pow2(_)
Pow2(k) == IF k = 0 THEN 1 ELSE 2 * Pow2(k - 1)

\* n/d (d > 0) rounded to a float
fl(n, d) ==
    IF n = 0 THEN <<0, 1>>
    ELSE LET a == Abs(n)
             \* scale by 2^k so that the quotient has Significand bits
             N(k) == IF k >= 0 THEN a * Pow2(k) ELSE a
             D(k) == IF k >= 0 THEN d ELSE d * Pow2(-k)
             k == CHOOSE j \in (-(Significand + 5))..(Significand + 5) :
                      /\ Pow2(Significand - 1) * D(j) <= N(j)
                      /\ N(j) < Pow2(Significand) * D(j)
             m == N(k) \div D(k)
             r == 2 * (N(k) % D(k))
             up == r > D(k) \/ (r = D(k) /\ m % 2 = 1)
             mm == (IF up THEN m + 1 ELSE m) * (IF n < 0 THEN -1 ELSE 1)
         IN IF k >= 0 THEN Frac(mm, Pow2(k)) ELSE Frac(mm * Pow2(-k), 1)

\* float arithmetic: the exact result, rounded
fadd(x, y) == fl(x[1] * y[2] + y[1] * x[2], x[2] * y[2])
fsub(x, y) == fl(x[1] * y[2] - y[1] * x[2], x[2] * y[2])
fmul(x, y) == fl(x[1] * y[1], x[2] * y[2])
fdiv(x, y) == fl(x[1] * y[2] * (IF y[1] < 0 THEN -1 ELSE 1), x[2] * Abs(y[1]))

\* the float of an integer
OfInt(n) == fl(n, 1)

\* x < y for fractions with positive denominators
Less(x, y) == x[1] * y[2] < y[1] * x[2]

(***************************************************************************)
(* Commands.  A command is its header (ON/OFF words included), the index   *)
(* formatted into the header (a marker or a channel; 0 when none) and its  *)
(* numeric argument (0 when none).                                         *)
(***************************************************************************)
Cmd(h, i, a) == [hdr |-> h, idx |-> i, arg |-> a]

NoCmd == Cmd("", 0, 0)

(***************************************************************************)
(* Exceptions and outcomes.                                                *)
(***************************************************************************)
\* An exception is its type, the command text its message carries (NoCmd when
\* none) and, for one that an I/O attempt raised, the place of that attempt in
\* the call's log (0 for one the driver raised itself): two exceptions of the
\* same type and text raised by different attempts are different objects.
NoExc == [type |-> "none", cmd |-> NoCmd, at |-> 0]

\* pyvisa's VisaIOError: an I/O failure (a timeout included) at the transport
VisaIOError(n) == [type |-> "VisaIOError", cmd |-> NoCmd, at |-> n]

\* pyvisa's InvalidSession: the handle is closed
InvalidSession(n) == [type |-> "InvalidSession", cmd |-> NoCmd, at |-> n]

\* RuntimeError(f"VISA write error en '{cmd}': {e}"): the command is attached
RuntimeError(c, n) == [type |-> "RuntimeError", cmd |-> c, at |-> n]

\* RuntimeError("No SCPI variant worked")
NoVariantError == [type |-> "RuntimeError", cmd |-> NoCmd, at |-> 0]

ValueError == [type |-> "ValueError", cmd |-> NoCmd, at |-> 0]

\* RuntimeError(f"No pude abrir VISA en {ip} (hislip0 ni inst0)")
CannotOpenError(ip) == [type |-> "RuntimeError", cmd |-> Cmd(ip, 0, 0), at |-> 0]

ZeroDivisionError == [type |-> "ZeroDivisionError", cmd |-> NoCmd, at |-> 0]

NoVal == <<>>

\* one I/O attempt on the handle: what was tried, with which command, whether
\* it went through, and the reply text read (none for a write or a failure)
Ev(o, c, good) == [op |-> o, cmd |-> c, ok |-> good, reply |-> NoVal]

Answered(c, r) == [op |-> "query", cmd |-> c, ok |-> TRUE, reply |-> r]

\* where a call stands: the instrument, the log so far, the exception in
\* flight (or none) and the value in hand
Out(i, l, e, v) == [inst |-> i, log |-> l, exc |-> e, val |-> v]

Raised(o) == o.exc # NoExc

\* statement sequencing: F continues each outcome of S that raised nothing
Then(S, F(_)) == UNION {IF Raised(o) THEN {o} ELSE F(o) : o \in S}

(***************************************************************************)
(* The instrument behind the handle.  The drivers hold no copy of its      *)
(* settings: start, stop and points live here and are read back by query.  *)
(***************************************************************************)
\* which spelling of its candidate list a header is (0: a common command,
\* or a command a driver sends in one spelling only)
Variant(h) ==
    CASE h \in {"FREQ:STAR", "FREQ:STOP", "SWE:POIN", "FREQ:CENT", "FREQ:SPAN",
                "FREQ:STAR?", "FREQ:STOP?", "SWE:POIN?", "CALC:MARK:X",
                "FORM ASC", "TRAC:DATA? TRACE", "DISP:WIND:TRAC:Y:RLEV",
                "INIT:CONT OFF", "INP:GAIN:STAT ON", "CALC:MARK:X?",
                "CALC:MARK:Y?", "CALC:MARK:DELT:X?", "CALC:MARK:DELT:Y?",
                "CALC:MARK:STAT ON", "CALC:MARK:STAT OFF", "INIT:IMM"} -> 1
      [] h \in {"SENS:FREQ:STAR", "SENS:FREQ:STOP", "SENS:SWE:POIN",
                "SENS:FREQ:CENT", "SENS:FREQ:SPAN", "SENS:FREQ:STAR?",
                "SENS:FREQ:STOP?", "SENS:SWE:POIN?", "CALC:MARKER:X",
                "FORM:DATA ASC", "TRAC? TRACE", "DISP:TRAC:Y:RLEV",
                "SENS:INIT:CONT OFF", "CALC:MARKER:X?", "CALC:MARKER:Y?",
                "CALC:MARKER:DELTA:X?", "CALC:MARKER:DELTA:Y?",
                "CALC:MARKER:STATE ON", "CALC:MARKER:STATE OFF", "INIT"} -> 2
      [] h \in {"TRAC:DATA?", "DISP:WIND1:TRAC1:Y:RLEV"} -> 3
      [] OTHER -> 0

\* the setting or reading a header stands for
Fn(h) ==
    CASE h \in {"FREQ:STAR", "SENS:FREQ:STAR"} -> "start"
      [] h \in {"FREQ:STOP", "SENS:FREQ:STOP"} -> "stop"
      [] h \in {"SWE:POIN", "SENS:SWE:POIN"} -> "points"
      [] h \in {"FREQ:CENT", "SENS:FREQ:CENT"} -> "center"
      [] h \in {"FREQ:SPAN", "SENS:FREQ:SPAN"} -> "span"
      [] h \in {"FREQ:STAR?", "SENS:FREQ:STAR?"} -> "start?"
      [] h \in {"FREQ:STOP?", "SENS:FREQ:STOP?"} -> "stop?"
      [] h \in {"SWE:POIN?", "SENS:SWE:POIN?"} -> "points?"
      [] h \in {"TRAC:DATA? TRACE", "TRAC? TRACE", "TRAC:DATA?"} -> "trace?"
      [] h = "SYST:ERR?" -> "error?"
      [] h = "*IDN?" -> "idn?"
      [] h \in {"CALC:MARK:X?", "CALC:MARKER:X?"} -> "marker x?"
      [] h \in {"CALC:MARK:Y?", "CALC:MARKER:Y?"} -> "marker y?"
      [] h \in {"CALC:MARK:DELT:X?", "CALC:MARKER:DELTA:X?"} -> "delta x?"
      [] h \in {"CALC:MARK:DELT:Y?", "CALC:MARKER:DELTA:Y?"} -> "delta y?"
      [] h \in {"FORM ASC", "FORM:DATA ASC"} -> "format"
      [] h \in {":SOUR:APPL:SIN", ":SOUR:VOLT"} -> "amplitude"
      [] h \in {"CALC:MARK:STAT OFF", "CALC:MARKER:STATE OFF"} -> "marker off"
      [] h \in {"CALC:MARK:STAT ON", "CALC:MARKER:STATE ON"} -> "marker on"
      [] h \in {"INIT:CONT OFF", "SENS:INIT:CONT OFF"} -> "continuous off"
      [] h \in {"INIT:IMM", "INIT"} -> "sweep"
      [] h = "*OPC?" -> "opc?"
      [] h = "*CLS" -> "cls"
      [] h = "*RST" -> "rst"
      [] h = ":OUTP OFF" -> "output off"
      [] h = ":OUTP ON" -> "output on"
      [] OTHER -> "other"

\* the instrument knows the spelling
Understands(i, c) == Variant(c.hdr) = 0 \/ Variant(c.hdr) \in i.dialect

UndefinedHeader == -113
DataOutOfRange == -222
QueueOverflow == -350

\* the instrument files an error; a full queue keeps its last place for
\* "queue overflow"
PushError(i, code) ==
    IF Len(i.errq) < MaxErrQueue THEN [i EXCEPT !.errq = Append(@, code)]
    ELSE IF MaxErrQueue = 0 THEN i
    ELSE [i EXCEPT !.errq[MaxErrQueue] = QueueOverflow]

\* the instrument moves its span to [lo, lo + width] when that lies in its
\* frequency range, and files an error when it does not
InRange(i, lo, width) ==
    IF lo \in Freqs /\ lo + width \in Freqs
    THEN [i EXCEPT !.start = lo, !.stop = lo + width]
    ELSE PushError(i, DataOutOfRange)

\* the instrument executes a command written to it: an unknown spelling
\* goes to its error queue, a known setting is taken as written
DevApply(i, c) ==
    IF ~Understands(i, c) THEN PushError(i, UndefinedHeader)
    ELSE CASE Fn(c.hdr) = "start" -> [i EXCEPT !.start = c.arg]
           [] Fn(c.hdr) = "stop" -> [i EXCEPT !.stop = c.arg]
           [] Fn(c.hdr) = "points" -> [i EXCEPT !.points = c.arg]
           [] Fn(c.hdr) = "center" ->
                InRange(i, c.arg - ((i.stop - i.start) \div 2), i.stop - i.start)
           [] Fn(c.hdr) = "span" ->
                InRange(i, i.start + ((i.stop - i.start) \div 2) - (c.arg \div 2),
                        c.arg)
           [] Fn(c.hdr) = "format" -> [i EXCEPT !.fmt = "asc"]
           [] Fn(c.hdr) = "cls" -> [i EXCEPT !.errq = <<>>]
           [] Fn(c.hdr) = "rst" ->
                [i EXCEPT !.start = 0, !.stop = MaxFreq, !.points = MaxPoints,
                          !.fmt = "native", !.mon = {}, !.outs = {}]
           [] Fn(c.hdr) = "marker off" -> [i EXCEPT !.mon = @ \ {c.idx}]
           [] Fn(c.hdr) = "marker on" -> [i EXCEPT !.mon = @ \cup {c.idx}]
           [] Fn(c.hdr) = "output off" -> [i EXCEPT !.outs = @ \ {c.idx}]
           [] Fn(c.hdr) = "output on" -> [i EXCEPT !.outs = @ \cup {c.idx}]
           [] OTHER -> i

TraceChars == {"1", "a", ",", ";", "\n", " "}

\* every text of at most MaxReplyLen characters
ReplyTexts == UNION {[1..n -> TraceChars] : n \in 0..MaxReplyLen}

\* the error-queue reply: "<code>,<message>", "0,N(o error)" when empty
ErrText(code) == FmtNum(code) \o <<",">> \o (IF code = 0 THEN <<"N">> ELSE <<"e">>)

StormCode == 10

\* the instrument's answers to a query, each with the state it leaves: none
\* when it does not know the spelling (it never replies)
DevAnswer(i, c) ==
    IF ~Understands(i, c) THEN {}
    ELSE CASE Fn(c.hdr) = "start?" -> {<<i, FmtNum(i.start)>>}
           [] Fn(c.hdr) = "stop?" -> {<<i, FmtNum(i.stop)>>}
           [] Fn(c.hdr) = "points?" -> {<<i, FmtNum(i.points)>>}
           [] Fn(c.hdr) = "trace?" -> {<<i, i.trace[i.fmt]>>}
           [] Fn(c.hdr) = "error?" ->
                IF i.errq # <<>>
                THEN {<<[i EXCEPT !.errq = Tail(@)], ErrText(Head(i.errq))>>}
                ELSE IF i.storm THEN {<<i, ErrText(StormCode)>>}
                ELSE {<<i, ErrText(0)>>}
           [] Fn(c.hdr) = "idn?" -> {<<i, i.idn>>}
           [] Fn(c.hdr) = "marker x?" -> {<<i, FmtNum(i.mark[c.idx][1])>>}
           [] Fn(c.hdr) = "marker y?" -> {<<i, FmtNum(i.mark[c.idx][2])>>}
           [] Fn(c.hdr) = "delta x?" ->
                IF i.delta = <<>> THEN {} ELSE {<<i, i.delta[1]>>}
           [] Fn(c.hdr) = "delta y?" ->
                IF i.delta = <<>> THEN {} ELSE {<<i, i.delta[2]>>}
           [] OTHER -> {<<i, <<"1">> >>}

(***************************************************************************)
(* The pyvisa handle (self.sa, self.vna, self.inst) and resource manager.  *)
(***************************************************************************)
Log(o, e) == Append(o.log, e)

\* the place in the log of the attempt being made
Here(o) == Len(o.log) + 1

\* handle.write(cmd): fails on a closed handle; on an open one the transport
\* may fail, else the instrument gets the command
hWrite(o, c) ==
    IF ~o.inst.open
    THEN {Out(o.inst, Log(o, Ev("write", c, FALSE)), InvalidSession(Here(o)), NoVal)}
    ELSE {Out(o.inst, Log(o, Ev("write", c, FALSE)), VisaIOError(Here(o)), NoVal),
          Out(DevApply(o.inst, c), Log(o, Ev("write", c, TRUE)), NoExc, NoVal)}

\* handle.query(cmd): as write, and times out when no reply comes
hQuery(o, c) ==
    IF ~o.inst.open
    THEN {Out(o.inst, Log(o, Ev("query", c, FALSE)), InvalidSession(Here(o)), NoVal)}
    ELSE {Out(IF Understands(o.inst, c) THEN o.inst
              ELSE PushError(o.inst, UndefinedHeader),
              Log(o, Ev("query", c, FALSE)), VisaIOError(Here(o)), NoVal)}
         \cup {Out(a[1], Log(o, Answered(c, a[2])), NoExc, a[2]) :
                   a \in DevAnswer(o.inst, c)}

\* handle.close(): releases an open handle (or fails at the transport); on a
\* handle already closed it either fails or does nothing
hClose(o) ==
    {Out([o.inst EXCEPT !.open = FALSE],
         Log(o, Ev("close", NoCmd, TRUE)), NoExc, NoVal),
     Out(o.inst, Log(o, Ev("close", NoCmd, FALSE)),
         IF o.inst.open THEN VisaIOError(Here(o)) ELSE InvalidSession(Here(o)),
         NoVal)}

\* rm.open_resource(address): a new handle on the instrument, or a failure to
\* reach it
hOpen(o) ==
    {Out([o.inst EXCEPT !.open = TRUE], Log(o, Ev("open", NoCmd, TRUE)), NoExc, NoVal),
     Out(o.inst, Log(o, Ev("open", NoCmd, FALSE)), VisaIOError(Here(o)), NoVal)}

\* self.rm.open_resource(candidate): as above, the endpoint recorded
open_resource(o, endpoint) ==
    {Out([o.inst EXCEPT !.open = TRUE],
         Log(o, Ev("open", Cmd(endpoint, 0, 0), TRUE)), NoExc, NoVal),
     Out(o.inst, Log(o, Ev("open", Cmd(endpoint, 0, 0), FALSE)),
         VisaIOError(Here(o)), NoVal)}

\* rm.close()
rmClose(o) ==
    {Out(o.inst, Log(o, Ev("rmclose", NoCmd, TRUE)), NoExc, NoVal),
     Out(o.inst, Log(o, Ev("rmclose", NoCmd, FALSE)), VisaIOError(Here(o)), NoVal)}

(***************************************************************************)
(* SpectrumAnalyzer: write, query and the command variant resolver.        *)
(***************************************************************************)
\* except VisaIOError as e: raise RuntimeError(... cmd ...)
Wrap(S, c) ==
    {IF o.exc.type = "VisaIOError"
     THEN [o EXCEPT !.exc = RuntimeError(c, o.exc.at)] ELSE o : o \in S}

SA_write(o, c) == Wrap(hWrite(o, c), c)

SA_query(o, c) == Wrap(hQuery(o, c), c)

RECURSIVE TryWriteFrom(_, _, _)
\* the loop of _try_write_any from candidate k on; o.exc holds last_err
TryWriteFrom(o, cmds, k) ==
    IF k > Len(cmds)
    THEN {IF Raised(o) THEN o ELSE [o EXCEPT !.exc = NoVariantError]}
    ELSE UNION {IF Raised(w) THEN TryWriteFrom(w, cmds, k + 1) ELSE {w} :
                    w \in SA_write([o EXCEPT !.exc = NoExc], cmds[k])}

RECURSIVE TryWriteAll(_, _, _, _)
\* a resolver that does not return on the first success
TryWriteAll(o, cmds, k, good) ==
    IF k > Len(cmds)
    THEN {IF good THEN [o EXCEPT !.exc = NoExc]
          ELSE IF Raised(o) THEN o ELSE [o EXCEPT !.exc = NoVariantError]}
    ELSE UNION {TryWriteAll(w, cmds, k + 1, good \/ ~Raised(w)) :
                    w \in SA_write([o EXCEPT !.exc = NoExc], cmds[k])}

_try_write_any_no_return(o, cmds) == TryWriteAll(o, cmds, 1, FALSE)

RECURSIVE TryWriteFirstErr(_, _, _, _)
\* a resolver that keeps the first error it saw instead of the last
TryWriteFirstErr(o, cmds, k, first) ==
    IF k > Len(cmds)
    THEN {IF first # NoExc THEN [o EXCEPT !.exc = first]
          ELSE [o EXCEPT !.exc = NoVariantError]}
    ELSE UNION {IF Raised(w)
                THEN TryWriteFirstErr(w, cmds, k + 1,
                                      IF first = NoExc THEN w.exc ELSE first)
                ELSE {w} :
                    w \in SA_write([o EXCEPT !.exc = NoExc], cmds[k])}

_try_write_any_first_err(o, cmds) == TryWriteFirstErr(o, cmds, 1, NoExc)

_try_write_any(o, cmds) == TryWriteFrom(o, cmds, 1)

RECURSIVE TryQueryFrom(_, _, _)
TryQueryFrom(o, cmds, k) ==
    IF k > Len(cmds)
    THEN {IF Raised(o) THEN o ELSE [o EXCEPT !.exc = NoVariantError]}
    ELSE UNION {IF Raised(q) THEN TryQueryFrom(q, cmds, k + 1) ELSE {q} :
                    q \in SA_query([o EXCEPT !.exc = NoExc], cmds[k])}

\* a resolver that passes over the first of several candidates
_try_query_any_skip_first(o, cmds) ==
    TryQueryFrom(o, cmds, IF Len(cmds) > 1 THEN 2 ELSE 1)

_try_query_any(o, cmds) == TryQueryFrom(o, cmds, 1)

\* the candidate lists the SpectrumAnalyzer methods pass to the resolver
StartCmds(f) == <<Cmd("FREQ:STAR", 0, f), Cmd("SENS:FREQ:STAR", 0, f)>>
StopCmds(f) == <<Cmd("FREQ:STOP", 0, f), Cmd("SENS:FREQ:STOP", 0, f)>>
PointsCmds(n) == <<Cmd("SWE:POIN", 0, n), Cmd("SENS:SWE:POIN", 0, n)>>
CenterCmds(f) == <<Cmd("FREQ:CENT", 0, f), Cmd("SENS:FREQ:CENT", 0, f)>>
SpanCmds(f) == <<Cmd("FREQ:SPAN", 0, f), Cmd("SENS:FREQ:SPAN", 0, f)>>
StartQueries == <<Cmd("FREQ:STAR?", 0, 0), Cmd("SENS:FREQ:STAR?", 0, 0)>>
StopQueries == <<Cmd("FREQ:STOP?", 0, 0), Cmd("SENS:FREQ:STOP?", 0, 0)>>
PointsQueries == <<Cmd("SWE:POIN?", 0, 0), Cmd("SENS:SWE:POIN?", 0, 0)>>
MarkerXCmds(idx, f) == <<Cmd("CALC:MARK:X", idx, f), Cmd("CALC:MARKER:X", idx, f)>>
RefLevelCmds(l) == <<Cmd("DISP:WIND:TRAC:Y:RLEV", 0, l), Cmd("DISP:TRAC:Y:RLEV", 0, l),
                     Cmd("DISP:WIND1:TRAC1:Y:RLEV", 0, l)>>
PreampCmds == <<Cmd("INP:GAIN:STAT ON", 0, 0)>>
FormatCmds == <<Cmd("FORM ASC", 0, 0), Cmd("FORM:DATA ASC", 0, 0)>>
TraceQueries(trace) == <<Cmd("TRAC:DATA? TRACE", trace, 0), Cmd("TRAC? TRACE", trace, 0),
                         Cmd("TRAC:DATA?", 0, 0)>>

ErrQuery == Cmd("SYST:ERR?", 0, 0)

\* float(reply) of the reply in hand: the number, or ValueError
Float(o) ==
    IF Raised(o) THEN o
    ELSE IF FloatOk(o.val) THEN [o EXCEPT !.val = FloatVal(o.val)]
    ELSE [o EXCEPT !.exc = ValueError, !.val = NoVal]

Raise(o, e) == {[o EXCEPT !.exc = e, !.val = NoVal]}

Return(o, v) == {[o EXCEPT !.val = v]}

RECURSIVE SA_DrainFrom(_, _, _)
\* the loop of check_errors with `left` reads to go and errs gathered
SA_DrainFrom(o, errs, left) ==
    IF left <= 0 THEN Return(o, errs)
    ELSE UNION {IF Raised(q) THEN {q}
                ELSE IF startswith(q.val, <<"0">>)
                THEN Return(q, Append(errs, strip(q.val)))
                ELSE SA_DrainFrom(q, Append(errs, strip(q.val)), left - 1) :
                    q \in SA_query(o, ErrQuery)}

RECURSIVE SA_DrainNoBreak(_, _, _)
\* a drain loop that does not stop at the "no error" reply
SA_DrainNoBreak(o, errs, left) ==
    IF left <= 0 THEN Return(o, errs)
    ELSE UNION {IF Raised(q) THEN {q}
                ELSE SA_DrainNoBreak(q, Append(errs, strip(q.val)), left - 1) :
                    q \in SA_query(o, ErrQuery)}

SA_check_errors_no_break(o, max_reads) == SA_DrainNoBreak(o, <<>>, max_reads)

\* a drain loop that reads once more than its cap
SA_check_errors_one_more(o, max_reads) == SA_DrainFrom(o, <<>>, max_reads + 1)

SA_check_errors(o, max_reads) == SA_DrainFrom(o, <<>>, max_reads)

\* try: self.sa.close() / finally: try: self.rm.close() except: pass
SA_close(o) ==
    UNION {{[r EXCEPT !.exc = c.exc] : r \in rmClose([c EXCEPT !.exc = NoExc])} :
               c \in hClose(o)}

\* set_span that lets an empty span (stop = start) through
SA_set_span_strict_less(o, start_hz, stop_hz, points) ==
    IF stop_hz < start_hz THEN Raise(o, ValueError)
    ELSE Then(_try_write_any(o, StartCmds(start_hz)), LAMBDA a :
         Then(_try_write_any(a, StopCmds(stop_hz)), LAMBDA b :
         _try_write_any(b, PointsCmds(points))))

\* set_span that writes the stop frequency before the start frequency
SA_set_span_stop_first(o, start_hz, stop_hz, points) ==
    IF stop_hz <= start_hz THEN Raise(o, ValueError)
    ELSE Then(_try_write_any(o, StopCmds(stop_hz)), LAMBDA a :
         Then(_try_write_any(a, StartCmds(start_hz)), LAMBDA b :
         _try_write_any(b, PointsCmds(points))))

SA_set_span(o, start_hz, stop_hz, points) ==
    IF stop_hz <= start_hz THEN Raise(o, ValueError)
    ELSE Then(_try_write_any(o, StartCmds(start_hz)), LAMBDA a :
         Then(_try_write_any(a, StopCmds(stop_hz)), LAMBDA b :
         _try_write_any(b, PointsCmds(points))))

set_center_span(o, center_hz, span_hz, points) ==
    IF span_hz <= 0 THEN Raise(o, ValueError)
    ELSE Then(_try_write_any(o, CenterCmds(center_hz)), LAMBDA a :
         Then(_try_write_any(a, SpanCmds(span_hz)), LAMBDA b :
         _try_write_any(b, PointsCmds(points))))

get_start_stop(o) ==
    Then({Float(q) : q \in _try_query_any(o, StartQueries)}, LAMBDA a :
    Then({Float(q) : q \in _try_query_any(a, StopQueries)}, LAMBDA b :
    Return(b, <<a.val, b.val>>)))

\* the ON/OFF word is part of the header
MarkerStateCmds(idx, on) ==
    <<Cmd(IF on THEN "CALC:MARK:STAT ON" ELSE "CALC:MARK:STAT OFF", idx, 0),
      Cmd(IF on THEN "CALC:MARKER:STATE ON" ELSE "CALC:MARKER:STATE OFF", idx, 0)>>

SA_set_marker(o, idx, on) == _try_write_any(o, MarkerStateCmds(idx, on))

RECURSIVE SA_ClearFrom(_, _, _)
\* the loop of clear_markers from marker i on: except Exception: break
SA_ClearFrom(o, i, max_markers) ==
    IF i > max_markers THEN {o}
    ELSE UNION {IF Raised(w) THEN {[w EXCEPT !.exc = NoExc]}
                ELSE SA_ClearFrom(w, i + 1, max_markers) :
                    w \in SA_set_marker(o, i, FALSE)}

SA_clear_markers(o, max_markers) == SA_ClearFrom(o, 1, max_markers)

\* the ON/OFF word is part of the header; the callers modelled pass False
ContinuousCmds(on) ==
    <<Cmd(IF on THEN "INIT:CONT ON" ELSE "INIT:CONT OFF", 0, 0),
      Cmd(IF on THEN "SENS:INIT:CONT ON" ELSE "SENS:INIT:CONT OFF", 0, 0)>>

SweepCmds == <<Cmd("INIT:IMM", 0, 0), Cmd("INIT", 0, 0)>>

SA_continuous(o, on) == _try_write_any(o, ContinuousCmds(on))

\* the reply of *OPC? is read and dropped
Opc(S) == {IF Raised(q) THEN q ELSE [q EXCEPT !.val = NoVal] : q \in S}

\* a single_sweep that goes on to start the sweep when continuous mode could
\* not be switched off
SA_single_sweep_unchecked(o, wait) ==
    Then({[c EXCEPT !.exc = NoExc] : c \in SA_continuous(o, FALSE)}, LAMBDA a :
    Then(_try_write_any(a, SweepCmds), LAMBDA b :
    IF wait THEN Opc(SA_query(b, Cmd("*OPC?", 0, 0))) ELSE {b}))

SA_single_sweep(o, wait) ==
    Then(SA_continuous(o, FALSE), LAMBDA a :
    Then(_try_write_any(a, SweepCmds), LAMBDA b :
    IF wait THEN Opc(SA_query(b, Cmd("*OPC?", 0, 0))) ELSE {b}))

SA_reset(o, wait) ==
    Then(SA_write(o, Cmd("*CLS", 0, 0)), LAMBDA a :
    Then(SA_write(a, Cmd("*RST", 0, 0)), LAMBDA b :
    IF wait THEN Opc(SA_query(b, Cmd("*OPC?", 0, 0))) ELSE {b}))

\* set_marker_x that checks the lower end of the span only
SA_set_marker_x_no_upper(o, idx, freq_hz) ==
    Then(get_start_stop(o), LAMBDA s :
    IF ~(s.val[1] <= freq_hz) THEN Raise(s, ValueError)
    ELSE _try_write_any([s EXCEPT !.val = NoVal], MarkerXCmds(idx, freq_hz)))

\* set_marker_x that validates against the span the session began with
SA_set_marker_x_cached(o, idx, freq_hz) ==
    IF ~(0 <= freq_hz /\ freq_hz <= MaxFreq) THEN Raise(o, ValueError)
    ELSE _try_write_any(o, MarkerXCmds(idx, freq_hz))

SA_set_marker_x(o, idx, freq_hz) ==
    Then(get_start_stop(o), LAMBDA s :
    IF ~(s.val[1] <= freq_hz /\ freq_hz <= s.val[2]) THEN Raise(s, ValueError)
    ELSE _try_write_any([s EXCEPT !.val = NoVal], MarkerXCmds(idx, freq_hz)))

\* a first parse that does not take ';' for a separator
ParseTolerant_no_semicolon(data) ==
    LET parts == split(replace(data, "\n", ","), ",")
        good == SelectSeq(parts, LAMBDA p : strip(p) # <<>> /\ FloatOk(strip(p)))
    IN [k \in 1..Len(good) |-> FloatVal(strip(good[k]))]

\* the first parse of fetch_trace: tokens that float() rejects are passed over
ParseTolerant(data) ==
    LET parts == split(replace(replace(data, "\n", ","), ";", ","), ",")
        good == SelectSeq(parts, LAMBDA p : strip(p) # <<>> /\ FloatOk(strip(p)))
    IN [k \in 1..Len(good) |-> FloatVal(strip(good[k]))]

\* the tokens the parse after the retry hands to float()
RetryTokens(data) ==
    SelectSeq(split(replace(data, "\n", ","), ","), LAMBDA x : strip(x) # <<>>)

\* fetch_trace with the retry taken whatever the first parse gave
fetch_trace_always_retry(o, trace) ==
    Then(_try_query_any(o, TraceQueries(trace)), LAMBDA q :
    Then(_try_write_any([q EXCEPT !.val = NoVal], FormatCmds), LAMBDA w :
    Then(_try_query_any(w, TraceQueries(trace)), LAMBDA r :
    LET toks == RetryTokens(r.val)
    IN IF \E k \in 1..Len(toks) : ~FloatOk(toks[k]) THEN Raise(r, ValueError)
       ELSE Return(r, [k \in 1..Len(toks) |-> FloatVal(toks[k])]))))

fetch_trace(o, trace) ==
    Then(_try_query_any(o, TraceQueries(trace)), LAMBDA q :
    IF ParseTolerant(q.val) # <<>> THEN Return(q, ParseTolerant(q.val))
    ELSE Then(_try_write_any([q EXCEPT !.val = NoVal], FormatCmds), LAMBDA w :
         Then(_try_query_any(w, TraceQueries(trace)), LAMBDA r :
         LET toks == RetryTokens(r.val)
         IN IF \E k \in 1..Len(toks) : ~FloatOk(toks[k]) THEN Raise(r, ValueError)
            ELSE Return(r, [k \in 1..Len(toks) |-> FloatVal(toks[k])]))))

\* get_frequency_axis that answers a one-point sweep with its stop
get_frequency_axis_single_at_stop(o) ==
    Then(get_start_stop(o), LAMBDA s :
    Then({Float(q) : q \in _try_query_any([s EXCEPT !.val = NoVal], PointsQueries)}, LAMBDA p :
    LET f_start == OfInt(s.val[1])
        f_stop == OfInt(s.val[2])
        points == p.val
    IN IF points < 2 THEN Return(p, <<f_stop>>)
       ELSE LET step == fdiv(fsub(f_stop, f_start), OfInt(points - 1))
            IN Return(p, [k \in 1..points |-> fadd(f_start, fmul(OfInt(k - 1), step))])))

get_frequency_axis(o) ==
    Then(get_start_stop(o), LAMBDA s :
    Then({Float(q) : q \in _try_query_any([s EXCEPT !.val = NoVal], PointsQueries)}, LAMBDA p :
    LET f_start == OfInt(s.val[1])
        f_stop == OfInt(s.val[2])
        points == p.val
    IN IF points < 2 THEN Return(p, <<f_start>>)
       ELSE IF points - 1 = 0 THEN Raise(p, ZeroDivisionError)
       ELSE LET step == fdiv(fsub(f_stop, f_start), OfInt(points - 1))
            IN Return(p, [k \in 1..points |-> fadd(f_start, fmul(OfInt(k - 1), step))])))

MarkerXQueries(idx) == <<Cmd("CALC:MARK:X?", idx, 0), Cmd("CALC:MARKER:X?", idx, 0)>>
MarkerYQueries(idx) == <<Cmd("CALC:MARK:Y?", idx, 0), Cmd("CALC:MARKER:Y?", idx, 0)>>
DeltaXQueries(idx) == <<Cmd("CALC:MARK:DELT:X?", idx, 0), Cmd("CALC:MARKER:DELTA:X?", idx, 0)>>
DeltaYQueries(idx) == <<Cmd("CALC:MARK:DELT:Y?", idx, 0), Cmd("CALC:MARKER:DELTA:Y?", idx, 0)>>

get_marker_xy(o, idx) ==
    Then({Float(q) : q \in _try_query_any(o, MarkerXQueries(idx))}, LAMBDA x :
    Then({Float(q) : q \in _try_query_any(x, MarkerYQueries(idx))}, LAMBDA y :
    Return(y, <<x.val, y.val>>)))

\* the try block of get_delta_reading
DirectDelta(o, del_idx) ==
    Then({Float(q) : q \in _try_query_any(o, DeltaXQueries(del_idx))}, LAMBDA df :
    Then({Float(q) : q \in _try_query_any(df, DeltaYQueries(del_idx))}, LAMBDA da :
    Return(da, <<df.val, da.val>>)))

\* get_delta_reading with the difference taken the other way round
get_delta_reading_ref_minus_del(o, ref_idx, del_idx) ==
    UNION {IF ~Raised(d) THEN {d}
           ELSE Then(get_marker_xy([d EXCEPT !.exc = NoExc, !.val = NoVal], ref_idx),
                     LAMBDA p1 :
                Then(get_marker_xy(p1, del_idx), LAMBDA p2 :
                Return(p2, <<p1.val[1] - p2.val[1], p1.val[2] - p2.val[2]>>))) :
               d \in DirectDelta(o, del_idx)}

get_delta_reading(o, ref_idx, del_idx) ==
    UNION {IF ~Raised(d) THEN {d}
           ELSE Then(get_marker_xy([d EXCEPT !.exc = NoExc, !.val = NoVal], ref_idx),
                     LAMBDA p1 :
                Then(get_marker_xy(p1, del_idx), LAMBDA p2 :
                Return(p2, <<p2.val[1] - p1.val[1], p2.val[2] - p1.val[2]>>))) :
               d \in DirectDelta(o, del_idx)}

(***************************************************************************)
(* VNA.                                                                    *)
(***************************************************************************)
VNA_write(o, c) == Wrap(hWrite(o, c), c)

VNA_query(o, c) == Wrap(hQuery(o, c), c)

VnaMaxReads == 20

RECURSIVE VNA_DrainFrom(_, _, _)
VNA_DrainFrom(o, errors, left) ==
    IF left <= 0 THEN Return(o, errors)
    ELSE UNION {IF Raised(q) THEN {q}
                ELSE IF startswith(q.val, <<"0">>)
                THEN Return(q, Append(errors, strip(q.val)))
                ELSE VNA_DrainFrom(q, Append(errors, strip(q.val)), left - 1) :
                    q \in VNA_query(o, ErrQuery)}

VNA_check_errors(o) == VNA_DrainFrom(o, <<>>, VnaMaxReads)

VNA_close(o) ==
    UNION {{[r EXCEPT !.exc = c.exc] : r \in rmClose([c EXCEPT !.exc = NoExc])} :
               c \in hClose(o)}

VNA_set_span(o, start_freq, stop_freq, points) ==
    IF stop_freq <= start_freq THEN Raise(o, ValueError)
    ELSE Then(VNA_write(o, Cmd("SENS:FREQ:STAR", 0, start_freq)), LAMBDA a :
         Then(VNA_write(a, Cmd("SENS:FREQ:STOP", 0, stop_freq)), LAMBDA b :
         VNA_write(b, Cmd("SENS:SWE:POIN", 0, points))))

VNA_reset(o, wait) ==
    Then(VNA_write(o, Cmd("*CLS", 0, 0)), LAMBDA a :
    Then(VNA_write(a, Cmd("*RST", 0, 0)), LAMBDA b :
    IF wait THEN Opc(VNA_query(b, Cmd("*OPC?", 0, 0))) ELSE {b}))

VNA_set_marker(o, idx, on) ==
    VNA_write(o, Cmd(IF on THEN "CALC:MARK:STAT ON" ELSE "CALC:MARK:STAT OFF", idx, 0))

RECURSIVE VNA_ClearFrom(_, _, _)
\* the loop of clear_markers from marker i on: except Exception: print, break
VNA_ClearFrom(o, i, max_markers) ==
    IF i > max_markers THEN {o}
    ELSE UNION {IF Raised(w) THEN {[w EXCEPT !.exc = NoExc]}
                ELSE VNA_ClearFrom(w, i + 1, max_markers) :
                    w \in VNA_set_marker(o, i, FALSE)}

VNA_clear_markers(o, max_markers) == VNA_ClearFrom(o, 1, max_markers)

VNA_set_marker_x(o, idx, freq_hz) ==
    Then({Float(q) : q \in VNA_query(o, Cmd("SENS:FREQ:STAR?", 0, 0))}, LAMBDA a :
    Then({Float(q) : q \in VNA_query(a, Cmd("SENS:FREQ:STOP?", 0, 0))}, LAMBDA b :
    IF ~(a.val <= freq_hz /\ freq_hz <= b.val) THEN Raise(b, ValueError)
    ELSE VNA_write([b EXCEPT !.val = NoVal], Cmd("CALC:MARK:X", idx, freq_hz))))

VNA_get_marker_xy(o, idx) ==
    Then({Float(q) : q \in VNA_query(o, Cmd("CALC:MARK:X?", idx, 0))}, LAMBDA x :
    Then({Float(q) : q \in VNA_query(x, Cmd("CALC:MARK:Y?", idx, 0))}, LAMBDA y :
    Return(y, <<x.val, y.val>>)))

(***************************************************************************)
(* The adapter object.                                                     *)
(***************************************************************************)
\* self.idn and self.vendor of an identification reply
Identity(reply) ==
    LET idn == strip(reply)
    IN [idn |-> idn,
        vendor |-> upper(IF \E k \in 1..Len(idn) : idn[k] = ","
                         THEN split(idn, ",")[1] ELSE idn)]

\* the adapter with its handle and the identity it read
Adapter(reply) ==
    [handle |-> TRUE, idn |-> Identity(reply).idn, vendor |-> Identity(reply).vendor]

\* the adapter before a handle was assigned to it
NoAdapter == [handle |-> FALSE, idn |-> <<>>, vendor |-> <<>>]

(***************************************************************************)
(* The constructors of SpectrumAnalyzer and VNA.                           *)
(***************************************************************************)
\* the endpoint suffixes in reverse
Suffixes_inst0_first == <<"inst0", "hislip0">>

\* for suffix in ("hislip0", "inst0")
Suffixes == <<"hislip0", "inst0">>

RECURSIVE ProbeFrom(_, _, _)
\* the probe loop from suffix k on: the first endpoint that opens is kept
ProbeFrom(o, ip, k) ==
    IF k > Len(Suffixes) THEN Raise(o, CannotOpenError(ip))
    ELSE UNION {IF Raised(a) THEN ProbeFrom([a EXCEPT !.exc = NoExc], ip, k + 1)
                ELSE {a} : a \in open_resource(o, Suffixes[k])}

\* the handle of __init__(resource, ip); "" stands for None
OpenSession(o, resource, ip) ==
    IF resource = "" /\ ip # "" THEN ProbeFrom(o, ip, 1)
    ELSE IF resource # "" THEN open_resource(o, resource)
    ELSE Raise(o, ValueError)

SA_init(o, resource, ip) ==
    Then(OpenSession(o, resource, ip), LAMBDA h :
    Then(SA_write(h, Cmd("*CLS", 0, 0)), LAMBDA w :
    Then(SA_query(w, Cmd("*IDN?", 0, 0)), LAMBDA q :
    Return(q, Adapter(q.val)))))

VNA_init(o, resource, ip) ==
    Then(OpenSession(o, resource, ip), LAMBDA h :
    Then(VNA_write(h, Cmd("*CLS", 0, 0)), LAMBDA w :
    Then(VNA_query(w, Cmd("*IDN?", 0, 0)), LAMBDA q :
    Return(q, Adapter(q.val)))))

(***************************************************************************)
(* AWG_Rigol_DG922Pro and AnaPico_sin20G: output switches and close.       *)
(***************************************************************************)
OnOff(state) == IF state THEN ":OUTP ON" ELSE ":OUTP OFF"

AWG_enable_output(o, channel, state) == hWrite(o, Cmd(OnOff(state), channel, 0))

\* a close that releases the handle before it switches the outputs off
AWG_close_release_first(o) ==
    Then(hClose(o), LAMBDA a :
    Then(AWG_enable_output(a, 1, FALSE), LAMBDA b :
    AWG_enable_output(b, 2, FALSE)))

AWG_close(o) ==
    Then(AWG_enable_output(o, 1, FALSE), LAMBDA a :
    Then(AWG_enable_output(a, 2, FALSE), LAMBDA b :
    hClose(b)))

\* the minimum amplitude, 0.001 V; amplitudes are counted in steps of 0.0005 V
MinAmplitude == 2

\* set_sin(channel, frequency, amplitude, offset, phase): the command carries
\* the amplitude (frequency and offset pass through as given)
AWG_set_sin(o, channel, amplitude, phase) ==
    LET sent == IF amplitude < MinAmplitude THEN MinAmplitude ELSE amplitude
    IN Then(hWrite(o, Cmd(":SOUR:APPL:SIN", channel, sent)), LAMBDA w :
       IF phase # 0 THEN hWrite(w, Cmd(":SOUR:PHAS", channel, phase)) ELSE {w})

AWG_set_amplitude(o, channel, amplitude) ==
    hWrite(o, Cmd(":SOUR:VOLT", channel, amplitude))

\* setup_arbitrary_waveform(channel, waveform_data, sample_rate, amplitude,
\* offset): a failing sample-rate write is passed over
AWG_setup_arbitrary_waveform(o, channel, sample_rate, amplitude, offset) ==
    Then(hWrite(o, Cmd(":OUTP:LOAD", channel, 50)), LAMBDA a :
    Then(hWrite(a, Cmd(":SOUR:DATA:VOL:CLE", channel, 0)), LAMBDA b :
    Then(hWrite(b, Cmd(":SOUR:DATA:ARB", channel, 0)), LAMBDA c :
    Then(hWrite(c, Cmd(":SOUR:FUNC ARB", channel, 0)), LAMBDA d :
    Then(hWrite(d, Cmd(":SOUR:FUNC:ARB", channel, 0)), LAMBDA f :
    Then({[g EXCEPT !.exc = NoExc] : g \in hWrite(f, Cmd(":SOUR:FUNC:ARB:SRAT", channel, sample_rate))},
         LAMBDA g :
    Then(hWrite(g, Cmd(":SOUR:VOLT", channel, amplitude)), LAMBDA h :
    hWrite(h, Cmd(":SOUR:VOLT:OFFS", channel, offset)))))))))

\* open(): a new handle, then the identification query
AWG_open(o) ==
    Then(hOpen(o), LAMBDA a :
    {[q EXCEPT !.val = NoVal] : q \in hQuery(a, Cmd("*IDN?", 0, 0))})

LO_enable_output(o, state) == hWrite(o, Cmd(OnOff(state), 0, 0))

\* open(): as the AWG's, with a failing identification query passed over
LO_open(o) ==
    Then(hOpen(o), LAMBDA a :
    {[q EXCEPT !.exc = NoExc, !.val = NoVal] : q \in hQuery(a, Cmd("*IDN?", 0, 0))})

\* get_frequency(): the reading, or None when anything was raised
LO_get_frequency(o) ==
    {IF Raised(q) THEN [q EXCEPT !.exc = NoExc, !.val = NoVal]
     ELSE IF FloatOk(strip(q.val)) THEN [q EXCEPT !.val = FloatVal(strip(q.val))]
     ELSE [q EXCEPT !.val = NoVal] : q \in hQuery(o, Cmd(":FREQ?", 0, 0))}

LO_set_frequency(o, frequency) == hWrite(o, Cmd(":FREQ", 0, frequency))

LO_set_power(o, power) == hWrite(o, Cmd(":POW", 0, power))

LO_close(o) ==
    Then(LO_enable_output(o, FALSE), LAMBDA a : hClose(a))

(***************************************************************************)
(* Calls.                                                                  *)
(***************************************************************************)
\* the state a call starts from, and the state its outcome leaves
Start == Out(inst, <<>>, NoExc, NoVal)

Commit(o) ==
    /\ inst' = o.inst
    /\ log' = o.log
    /\ res' = [exc |-> o.exc, val |-> o.val]

\* the session as the constructor leaves it, on an instrument that knows
\* the spellings d; the instrument holds one trace, which it sends as one
\* text in its power-on data format and as another once told FORM ASC, the
\* X and Y of its two markers, and the texts of its delta readout if it has
\* one
Instrument(d) ==
    [open |-> TRUE, start |-> 0, stop |-> MaxFreq,
     points |-> MaxPoints, errq |-> <<>>, storm |-> FALSE, dialect |-> d,
     outs |-> {}, fmt |-> "native", trace |-> [native |-> <<"1">>, asc |-> <<"1">>],
     idn |-> <<"r", ",", "z">>, mark |-> <<<<0, 0>>, <<0, 0>>>>, delta |-> <<>>,
     mon |-> {}]

Constructed ==
    /\ call = [op |-> "__init__"]
    /\ log = <<>>
    /\ res = [exc |-> NoExc, val |-> NoVal]
    /\ self = Adapter(inst.idn)

(***************************************************************************)
(* The command variant resolver, called as the SpectrumAnalyzer methods    *)
(* call it.                                                                *)
(***************************************************************************)
WriteLists ==
    {<<>>, PreampCmds} \cup {RefLevelCmds(l) : l \in Freqs}
        \cup {StartCmds(f) : f \in Freqs}

QueryLists == {<<>>, StartQueries, StopQueries, PointsQueries}

ResolverWrite ==
    /\ drv = "SA"
    /\ \E cmds \in WriteLists : \E o \in _try_write_any(Start, cmds) :
           /\ Commit(o)
           /\ call' = [op |-> "_try_write_any", cmds |-> cmds]
    /\ UNCHANGED <<drv, self>>

ResolverQuery ==
    /\ drv = "SA"
    /\ \E cmds \in QueryLists : \E o \in _try_query_any(Start, cmds) :
           /\ Commit(o)
           /\ call' = [op |-> "_try_query_any", cmds |-> cmds]
    /\ UNCHANGED <<drv, self>>

Close ==
    /\ \E o \in (CASE drv = "SA" -> SA_close(Start)
                   [] drv = "VNA" -> VNA_close(Start)
                   [] drv = "AWG" -> AWG_close(Start)
                   [] drv = "LO" -> LO_close(Start)) :
           Commit(o)
    /\ call' = [op |-> "close"]
    /\ UNCHANGED <<drv, self>>

InitResolver ==
    /\ drv = "SA"
    /\ inst \in {Instrument(d) : d \in SUBSET {1, 2, 3}}
    /\ Constructed

NextResolver == ResolverWrite \/ ResolverQuery \/ Close

SpecResolver == InitResolver /\ [][NextResolver]_vars

ResolverCall == call.op \in {"_try_write_any", "_try_query_any"}

AllFailed == \A k \in 1..Len(log) : ~log[k].ok

LastOk == log # <<>> /\ log[Len(log)].ok

\* C1: the resolver attempts its candidates in list order from the first,
\* every attempt before the last one made has failed, it stops short of the
\* end of the list only on a success, and it returns normally exactly when
\* the last attempt made succeeded.
C1_OrderedFirstSuccess ==
    ResolverCall =>
        /\ Len(log) <= Len(call.cmds)
        /\ \A k \in 1..Len(log) :
               /\ log[k].cmd = call.cmds[k]
               /\ log[k].op = (IF call.op = "_try_write_any" THEN "write" ELSE "query")
        /\ \A k \in 1..(Len(log) - 1) : ~log[k].ok
        /\ (Len(log) < Len(call.cmds) => LastOk)
        /\ (res.exc = NoExc <=> LastOk)

\* candidates [A, B, C], A and B fail, C succeeds: A, B, C attempted, success
C1_Witness ==
    /\ ResolverCall
    /\ Len(call.cmds) = 3
    /\ Len(log) = 3
    /\ ~log[1].ok /\ ~log[2].ok /\ log[3].ok
    /\ res.exc = NoExc

\* C2: when every candidate of a non-empty list failed, each was attempted
\* once, in order, and the exception raised is the one the last candidate
\* produced (it carries that candidate's text when it is a wrapped transport
\* error); no exception leaves the resolver while candidates remain untried.
C2_LastErrorRaised ==
    ResolverCall =>
        /\ (res.exc # NoExc => Len(log) = Len(call.cmds))
        /\ (call.cmds # <<>> /\ AllFailed =>
               /\ Len(log) = Len(call.cmds)
               /\ \A k \in 1..Len(log) : log[k].cmd = call.cmds[k]
               /\ res.exc # NoExc
               /\ res.exc.at = Len(call.cmds)
               /\ (res.exc.type = "RuntimeError" =>
                       res.exc.cmd = call.cmds[Len(call.cmds)]))

\* three candidates, all failed on an open handle
C2_Witness ==
    /\ ResolverCall
    /\ Len(call.cmds) = 3
    /\ Len(log) = 3
    /\ AllFailed
    /\ res.exc = RuntimeError(call.cmds[3], 3)

\* C17: whatever calls came before, a resolver call with candidates makes
\* its first attempt with its first candidate, and it leaves the adapter's
\* handle, idn and vendor as they were.
C17_NoVariantMemory ==
    [][call'.op \in {"_try_write_any", "_try_query_any"} =>
           /\ self' = self
           /\ call'.cmds # <<>> => log' # <<>> /\ log'[1].cmd = call'.cmds[1]]_vars

\* the second spelling answered before (the queue holds the first spelling's
\* rejection from an earlier call) and the first spelling is tried again
C17_Witness ==
    /\ call.op = "_try_query_any"
    /\ Len(log) = 2
    /\ log[1].cmd = call.cmds[1] /\ ~log[1].ok
    /\ log[2].ok
    /\ inst.dialect = {2}
    /\ inst.errq = <<UndefinedHeader, UndefinedHeader>>

\* C18: the candidate on which _try_write_any returns is a command the
\* instrument accepted: it knows the spelling and filed no error for it.
C18_StoppedOnAccepted ==
    call.op = "_try_write_any" /\ res.exc = NoExc =>
        Understands(inst, log[Len(log)].cmd)

(***************************************************************************)
(* Span and marker setters of the SpectrumAnalyzer and the VNA.            *)
(***************************************************************************)
Markers == {1, 2}

\* points: int = 1001 (SpectrumAnalyzer), points: int = 201 (VNA)
SaDefaultPoints == 1001
VnaDefaultPoints == 201

SetSpan ==
    /\ drv \in {"SA", "VNA"}
    /\ \E a \in Freqs, b \in Freqs :
           /\ \E o \in (IF drv = "SA" THEN SA_set_span(Start, a, b, SaDefaultPoints)
                        ELSE VNA_set_span(Start, a, b, VnaDefaultPoints)) : Commit(o)
           /\ call' = [op |-> "set_span", start |-> a, stop |-> b]
    /\ UNCHANGED <<drv, self>>

SetCenterSpan ==
    /\ drv = "SA"
    /\ \E c \in {0, 1}, sp \in (-1)..MaxFreq :
           /\ \E o \in set_center_span(Start, c, sp, SaDefaultPoints) : Commit(o)
           /\ call' = [op |-> "set_center_span", center |-> c, span |-> sp]
    /\ UNCHANGED <<drv, self>>

SetMarkerX ==
    /\ drv \in {"SA", "VNA"}
    /\ \E idx \in {1}, f \in (-1)..(MaxFreq + 1) :
           /\ \E o \in (IF drv = "SA" THEN SA_set_marker_x(Start, idx, f)
                        ELSE VNA_set_marker_x(Start, idx, f)) : Commit(o)
           /\ call' = [op |-> "set_marker_x", idx |-> idx, freq |-> f]
    /\ UNCHANGED <<drv, self>>

\* the operator changes the span at the instrument's front panel
FrontPanel ==
    /\ inst.open
    /\ \E a \in Freqs, b \in Freqs :
           /\ a < b
           /\ inst' = [inst EXCEPT !.start = a, !.stop = b]
    /\ call' = [op |-> "front panel"]
    /\ log' = <<>>
    /\ res' = [exc |-> NoExc, val |-> NoVal]
    /\ UNCHANGED <<drv, self>>

InitSpan ==
    /\ drv \in {"SA", "VNA"}
    /\ inst = Instrument({1, 2, 3})
    /\ Constructed

NextSpan == SetSpan \/ SetCenterSpan \/ SetMarkerX \/ FrontPanel

SpecSpan == InitSpan /\ [][NextSpan]_vars

ReadBack(fn) == \E k \in 1..Len(log) : log[k].ok /\ Fn(log[k].cmd.hdr) = fn

Sweep(i) == <<i.start, i.stop, i.points>>

\* the step is a set_marker_x call with a frequency outside the span the
\* instrument holds as the call starts
OutsideSpanCall ==
    /\ call'.op = "set_marker_x"
    /\ ~(inst.start <= call'.freq /\ call'.freq <= inst.stop)

\* C3 as stated: a marker frequency outside the span is rejected with a
\* validation error and the call does no I/O on the handle at all.
C3_NoIOAtAll ==
    [][OutsideSpanCall => res'.exc = ValueError /\ log' = <<>>]_vars

\* C3 amended: a set_marker_x call with a frequency outside the current span
\* is never accepted and attempts no write; its only I/O is the read-back of
\* start and stop; it raises the validation error exactly when both were read
\* back (a failed read-back raises its own error instead); the instrument's
\* sweep settings stay as they were.
C3_RejectedWithoutWrite ==
    [][OutsideSpanCall =>
          /\ res'.exc # NoExc
          /\ \A k \in 1..Len(log') :
                 log'[k].op = "query" /\ Fn(log'[k].cmd.hdr) \in {"start?", "stop?"}
          /\ (res'.exc = ValueError <=>
                  \E j, k \in 1..Len(log') :
                      /\ log'[j].ok /\ Fn(log'[j].cmd.hdr) = "start?"
                      /\ log'[k].ok /\ Fn(log'[k].cmd.hdr) = "stop?")
          /\ Sweep(inst') = Sweep(inst)]_vars

\* a frequency above stop, both read-backs answered, validation error
C3_Witness ==
    /\ call.op = "set_marker_x"
    /\ call.freq > inst.stop
    /\ ReadBack("start?") /\ ReadBack("stop?")
    /\ res.exc = ValueError

\* the step is a set_span call with stop <= start, or a set_center_span call
\* with span <= 0
EmptySpanCall ==
    \/ call'.op = "set_span" /\ call'.stop <= call'.start
    \/ call'.op = "set_center_span" /\ call'.span <= 0

\* C4: set_span with stop <= start (and set_center_span with span <= 0)
\* raises the validation error without any I/O attempt, and leaves the
\* instrument as it was.
C4_EmptySpanRejected ==
    [][EmptySpanCall => res'.exc = ValueError /\ log' = <<>> /\ inst' = inst]_vars

\* set_span(f, f, n) on the SpectrumAnalyzer, rejected
C4_Witness ==
    /\ drv = "SA"
    /\ call.op = "set_span"
    /\ call.stop = call.start
    /\ res.exc = ValueError
    /\ log = <<>>

\* set_span alone, on a span that also changes at the front panel
NextSetSpan == SetSpan \/ FrontPanel

SpecSetSpan == InitSpan /\ [][NextSetSpan]_vars

\* the place of a setting in set_span: start, stop, point count
Rank(e) ==
    CASE Fn(e.cmd.hdr) = "start" -> 1
      [] Fn(e.cmd.hdr) = "stop" -> 2
      [] Fn(e.cmd.hdr) = "points" -> 3
      [] OTHER -> 0

\* the value set_span was called with for the setting an event carries
Asked(c, e) ==
    CASE Rank(e) = 1 -> c.start
      [] Rank(e) = 2 -> c.stop
      [] OTHER -> IF drv = "SA" THEN SaDefaultPoints ELSE VnaDefaultPoints

\* the step is a set_span call with stop > start
SpanCall == call'.op = "set_span" /\ call'.stop > call'.start

\* C22: set_span with stop > start writes start, then stop, then the point
\* count, each with the value it was called with; a setting is attempted only
\* once the one before it has been written; the call raises exactly when its
\* last attempt failed, and then attempts nothing more; a successful call has
\* written all three; what was written stays written: the instrument holds
\* the new start once it is written, and keeps its old stop and point count
\* until those are.
C22_SpanWrittenInOrder ==
    [][SpanCall =>
          /\ Len(log') >= 1
          /\ Rank(log'[1]) = 1
          /\ \A k \in 1..Len(log') :
                 /\ log'[k].op = "write"
                 /\ Rank(log'[k]) \in 1..3
                 /\ log'[k].cmd.arg = Asked(call', log'[k])
                 /\ k > 1 =>
                        \/ Rank(log'[k]) = Rank(log'[k - 1]) /\ ~log'[k - 1].ok
                        \/ Rank(log'[k]) = Rank(log'[k - 1]) + 1 /\ log'[k - 1].ok
          /\ (res'.exc # NoExc <=> ~log'[Len(log')].ok)
          /\ (res'.exc = NoExc => Rank(log'[Len(log')]) = 3)
          /\ inst'.start = (IF \E k \in 1..Len(log') : log'[k].ok /\ Rank(log'[k]) = 1
                            THEN call'.start ELSE inst.start)
          /\ inst'.stop = (IF \E k \in 1..Len(log') : log'[k].ok /\ Rank(log'[k]) = 2
                           THEN call'.stop ELSE inst.stop)
          /\ (inst'.points # inst.points =>
                  \E k \in 1..Len(log') : log'[k].ok /\ Rank(log'[k]) = 3)]_vars

\* set_span on the SpectrumAnalyzer failed at the stop frequency: the start
\* was written (at its second spelling), the stop was tried in both spellings,
\* the point count was not tried, and the instrument holds the new start with
\* another stop
C22_Witness ==
    /\ drv = "SA"
    /\ call.op = "set_span"
    /\ call.start = 1 /\ call.stop > call.start
    /\ res.exc # NoExc
    /\ Len(log) = 4
    /\ ~log[1].ok /\ log[2].ok /\ Rank(log[2]) = 1
    /\ ~log[3].ok /\ ~log[4].ok /\ Rank(log[4]) = 2
    /\ inst.start = call.start
    /\ inst.stop # call.stop

(***************************************************************************)
(* Draining the error queue.                                               *)
(***************************************************************************)
ErrCodes == {1, 2, UndefinedHeader}

ErrQueues == UNION {[1..n -> ErrCodes] : n \in 0..MaxErrQueue}

CheckErrors ==
    /\ drv \in {"SA", "VNA"}
    /\ \/ /\ drv = "SA"
          /\ \E m \in 0..MaxReadsArg :
                 /\ \E o \in SA_check_errors(Start, m) : Commit(o)
                 /\ call' = [op |-> "check_errors", cap |-> m]
       \/ /\ drv = "VNA"
          /\ \E o \in VNA_check_errors(Start) : Commit(o)
          /\ call' = [op |-> "check_errors", cap |-> VnaMaxReads]
    /\ UNCHANGED <<drv, self>>

\* a measurement goes wrong and the instrument files an error
DeviceError ==
    /\ Len(inst.errq) < MaxErrQueue
    /\ \E code \in ErrCodes : inst' = PushError(inst, code)
    /\ call' = [op |-> "device error"]
    /\ log' = <<>>
    /\ res' = [exc |-> NoExc, val |-> NoVal]
    /\ UNCHANGED <<drv, self>>

InitDrain ==
    /\ drv \in {"SA", "VNA"}
    /\ \E q \in ErrQueues, st \in BOOLEAN :
           inst = [Instrument({1, 2, 3}) EXCEPT !.errq = q, !.storm = st]
    /\ Constructed

NextDrain == CheckErrors \/ DeviceError

SpecDrain == InitDrain /\ [][NextDrain]_vars

\* the code number an error-queue reply leads with
LeadingCode(t) == FloatVal(split(t, ",")[1])

DrainReturned == call.op = "check_errors" /\ res.exc = NoExc

\* C5: a drain that returns has read the error queue once per message it
\* returns, the messages are the replies in read order (white space at the
\* ends dropped), no reply before the last one read led with code zero, and
\* a drain that stopped short of its cap stopped on a reply leading with
\* code zero.
C5_DrainStopsAtNoError ==
    DrainReturned =>
        /\ \A k \in 1..Len(log) :
               log[k].op = "query" /\ log[k].cmd = ErrQuery /\ log[k].ok
        /\ Len(res.val) = Len(log)
        /\ \A k \in 1..Len(log) : res.val[k] = strip(log[k].reply)
        /\ \A k \in 1..(Len(log) - 1) : LeadingCode(log[k].reply) # 0
        /\ (Len(log) < call.cap => Len(log) > 0 /\ LeadingCode(log[Len(log)].reply) = 0)

\* replies "1,e", "2,e", "0,N": three reads, three messages
C5_Witness ==
    /\ DrainReturned
    /\ Len(log) = 3
    /\ call.cap > 3
    /\ res.val = <<ErrText(1), ErrText(2), ErrText(0)>>

\* C6: no drain issues more error-queue queries than its cap, and a drain
\* that never read a zero code returns after exactly cap reads with exactly
\* cap messages.
C6_DrainBounded ==
    call.op = "check_errors" =>
        /\ Len(log) <= call.cap
        /\ (res.exc = NoExc /\ (\A k \in 1..Len(log) : LeadingCode(log[k].reply) # 0)
                => Len(log) = call.cap /\ Len(res.val) = call.cap)

\* the VNA drain against an instrument that keeps reporting errors: 20 reads
C6_Witness ==
    /\ drv = "VNA"
    /\ DrainReturned
    /\ inst.storm
    /\ Len(log) = VnaMaxReads
    /\ Len(res.val) = VnaMaxReads
    /\ \A k \in 1..Len(log) : LeadingCode(log[k].reply) # 0

(***************************************************************************)
(* Reading a trace from the spectrum analyzer.                             *)
(***************************************************************************)
FetchTrace ==
    /\ drv = "SA"
    /\ \E o \in fetch_trace(Start, 1) : Commit(o)
    /\ call' = [op |-> "fetch_trace"]
    /\ UNCHANGED <<drv, self>>

\* an analyzer that knows every spelling, and one that knows the bare
\* TRAC:DATA? only and no format command
FetchDialects == {{1, 2, 3}, {3}}

\* a definite-length binary block, as an analyzer sends a trace in a binary
\* data format: no token of it is a number
BinaryBlock == <<"#", "1", "1", "b">>

\* the analyzer powers on in ASCII format (FORM ASC changes nothing in what
\* it sends) or in a binary format
InitFetch ==
    /\ drv = "SA"
    /\ \E d \in FetchDialects, asc \in ReplyTexts :
       \E raw \in {asc, BinaryBlock} :
           /\ inst = [Instrument(d) EXCEPT !.trace = [native |-> raw, asc |-> asc]]
    /\ Constructed

NextFetch == FetchTrace

SpecFetch == InitFetch /\ [][NextFetch]_vars

IsTraceQuery(e) == e.op = "query" /\ Fn(e.cmd.hdr) = "trace?"

IsFormatWrite(e) == e.op = "write" /\ Fn(e.cmd.hdr) = "format"

\* the places in the call's log of the trace queries that were answered
TraceReads == {k \in 1..Len(log) : IsTraceQuery(log[k]) /\ log[k].ok}

\* the places in the call's log of the format writes, tried and gone through
FormatTries == {k \in 1..Len(log) : IsFormatWrite(log[k])}
FormatSent == {k \in FormatTries : log[k].ok}

FirstRead == CHOOSE k \in TraceReads : \A j \in TraceReads : k <= j

\* C9: a fetch_trace whose first trace query was answered turns to the format
\* command exactly when that reply parsed to no value; a call has at most two
\* answered trace queries and at most one format write that went through,
\* the second trace query is answered only after that write, and with a
\* first reply of one value or more the call writes nothing and returns.
C9_RetryOnceIffEmpty ==
    call.op = "fetch_trace" =>
        /\ Cardinality(TraceReads) <= 2
        /\ Cardinality(FormatSent) <= 1
        /\ TraceReads = {} => FormatTries = {} /\ Raised(res)
        /\ TraceReads # {} =>
             /\ (FormatTries # {}) <=> (ParseTolerant(log[FirstRead].reply) = <<>>)
             /\ ParseTolerant(log[FirstRead].reply) # <<>> =>
                  /\ Cardinality(TraceReads) = 1
                  /\ \A k \in 1..Len(log) : log[k].op # "write"
                  /\ res = [exc |-> NoExc, val |-> ParseTolerant(log[FirstRead].reply)]
             /\ Cardinality(TraceReads) = 2 =>
                  \E w \in FormatSent : \A k \in TraceReads \ {FirstRead} :
                      FirstRead < w /\ w < k

\* a first reply of no value, ASCII format forced, the trace read again
C9_Witness ==
    /\ call.op = "fetch_trace"
    /\ Cardinality(TraceReads) = 2
    /\ Cardinality(FormatSent) = 1
    /\ inst.fmt = "asc"
    /\ res.exc = NoExc
    /\ res.val # <<>>

\* C10: fetch_trace never ends in the ValueError of a token float() rejects.
C10_NoParseError ==
    call.op = "fetch_trace" => res.exc.type # "ValueError"

(***************************************************************************)
(* What a trace reply parses to.  Replies here are tokens joined by the    *)
(* three separators.                                                       *)
(***************************************************************************)
TraceTokens == {<<"1">>, <<" ", "-", "2">>, <<"a">>, <<>>}

Separators == {",", ";", "\n"}

RECURSIVE Join(_, _)
\* the tokens with the separators between them
Join(toks, seps) ==
    IF Len(toks) = 1 THEN toks[1]
    ELSE toks[1] \o <<seps[1]>> \o Join(Tail(toks), Tail(seps))

TokenTexts ==
    UNION {{Join(t, sp) : t \in [1..n -> TraceTokens], sp \in [1..(n - 1) -> Separators]} :
               n \in 1..MaxTokens}

\* an analyzer in ASCII format
InitParse ==
    /\ drv = "SA"
    /\ \E asc \in TokenTexts :
           inst = [Instrument({1, 2, 3}) EXCEPT !.trace = [native |-> asc, asc |-> asc]]
    /\ Constructed

NextParse == FetchTrace

SpecParse == InitParse /\ [][NextParse]_vars

RECURSIVE TokensOf(_, _)
\* the reply read left to right: cur is the token being read
TokensOf(t, cur) ==
    IF t = <<>> THEN <<cur>>
    ELSE IF Head(t) \in Separators THEN <<cur>> \o TokensOf(Tail(t), <<>>)
    ELSE TokensOf(Tail(t), Append(cur, Head(t)))

RECURSIVE NumbersOf(_)
\* the values of the tokens that are numbers, in the tokens' order
NumbersOf(toks) ==
    IF toks = <<>> THEN <<>>
    ELSE (IF FloatOk(Head(toks)) THEN <<FloatVal(Head(toks))>> ELSE <<>>)
             \o NumbersOf(Tail(toks))

LastRead == CHOOSE k \in TraceReads : \A j \in TraceReads : j <= k

GetFrequencyAxis ==
    /\ drv = "SA"
    /\ \E o \in get_frequency_axis(Start) : Commit(o)
    /\ call' = [op |-> "get_frequency_axis"]
    /\ UNCHANGED <<drv, self>>

AxisPoints == 1..MaxAxisPoints

InitAxis ==
    /\ drv = "SA"
    /\ \E a \in Freqs, b \in Freqs, n \in AxisPoints, d \in {{1, 2, 3}, {2}} :
           /\ a <= b
           /\ inst = [Instrument(d) EXCEPT !.start = a, !.stop = b, !.points = n]
    /\ Constructed

NextAxis == GetFrequencyAxis

SpecAxis == InitAxis /\ [][NextAxis]_vars

\* the call returned an axis
AxisReturned == call.op = "get_frequency_axis" /\ res.exc = NoExc

\* start + i*(stop-start)/(points-1) in floats, multiplying or dividing first
AxisFormula(start, stop, points, i) ==
    {fadd(start, fmul(OfInt(i), fdiv(fsub(stop, start), OfInt(points - 1)))),
     fadd(start, fdiv(fmul(OfInt(i), fsub(stop, start)), OfInt(points - 1)))}

\* C12: with stop > start and points >= 2 read back, the axis has points
\* entries, rises strictly, starts at start, ends at stop, and its entry i is
\* start + i*(stop-start)/(points-1).
C12_AxisExact ==
    AxisReturned /\ inst.stop > inst.start /\ inst.points >= 2 =>
        /\ Len(res.val) = inst.points
        /\ res.val[1] = Frac(inst.start, 1)
        /\ res.val[inst.points] = Frac(inst.stop, 1)
        /\ \A k \in 1..(inst.points - 1) : Less(res.val[k], res.val[k + 1])
        /\ \A k \in 1..inst.points :
               res.val[k] \in AxisFormula(OfInt(inst.start), OfInt(inst.stop),
                                          inst.points, k - 1)

\* C13: with one point read back the axis is [start], whatever stop is, and
\* no call ends in a division by zero.
C13_SinglePointAxis ==
    /\ AxisReturned /\ inst.points = 1 => res.val = <<Frac(inst.start, 1)>>
    /\ call.op = "get_frequency_axis" => res.exc # ZeroDivisionError

\* a one-point sweep with stop above start
C13_Witness ==
    /\ AxisReturned
    /\ inst.points = 1
    /\ inst.start < inst.stop
    /\ res.val = <<Frac(inst.start, 1)>>

(***************************************************************************)
(* Opening a session: SpectrumAnalyzer(resource, ip), VNA(resource, ip).   *)
(***************************************************************************)
Resources == {"", "TCPIP0::h::inst0::INSTR"}

Hosts == {"", "169.254.35.97"}

Construct ==
    /\ drv \in {"SA", "VNA"}
    /\ \E resource \in Resources, ip \in Hosts :
           /\ \E o \in (IF drv = "SA" THEN SA_init(Start, resource, ip)
                        ELSE VNA_init(Start, resource, ip)) :
                  /\ Commit(o)
                  /\ self' = IF Raised(o) THEN NoAdapter ELSE o.val
           /\ call' = [op |-> "__init__", resource |-> resource, ip |-> ip]
    /\ UNCHANGED drv

\* close() of an adapter that was constructed
Release ==
    /\ self.handle
    /\ Close

IdnTexts == {<<"r", ",", "z">>, <<"k", " ">>, <<"h", "p", ",", "8">>}

InitOpen ==
    /\ drv \in {"SA", "VNA"}
    /\ \E t \in IdnTexts : inst = [Instrument({1, 2, 3}) EXCEPT !.open = FALSE, !.idn = t]
    /\ call = [op |-> "new"]
    /\ log = <<>>
    /\ res = [exc |-> NoExc, val |-> NoVal]
    /\ self = NoAdapter

NextOpen == Construct \/ Release

SpecOpen == InitOpen /\ [][NextOpen]_vars

\* the attempts to open an endpoint in the call's log
Opens == SelectSeq(log, LAMBDA e : e.op = "open")

\* C14: a constructor given a bare host probes hislip0, then inst0, stops at
\* the first endpoint that opens and raises its connection error exactly
\* when none opened; a constructor given a resource opens it once, and the
\* failure to open it is the error of the call.  Nothing is sent before a
\* handle is open.
C14_OpenProbe ==
    call.op = "__init__" =>
        /\ \A k \in 1..Len(Opens) : log[k] = Opens[k]
        /\ (call.resource = "" /\ call.ip # "" =>
              /\ Len(Opens) \in 1..2
              /\ \A k \in 1..Len(Opens) :
                     /\ Opens[k].cmd.hdr = <<"hislip0", "inst0">>[k]
                     /\ k < Len(Opens) => ~Opens[k].ok
              /\ ~Opens[Len(Opens)].ok => Len(Opens) = 2
              /\ (res.exc = CannotOpenError(call.ip)) <=> ~Opens[Len(Opens)].ok)
        /\ (call.resource # "" =>
              /\ Len(Opens) = 1
              /\ Opens[1].cmd.hdr = call.resource
              /\ ~Opens[1].ok => Len(log) = 1 /\ res.exc = VisaIOError(1))
        /\ (res.exc = NoExc) = self.handle
        /\ self.handle => inst.open /\ self = Adapter(inst.idn)

\* hislip0 could not be reached, inst0 opened and the session was set up
C14_Witness ==
    /\ call.op = "__init__"
    /\ call.resource = ""
    /\ Len(Opens) = 2
    /\ ~Opens[1].ok /\ Opens[2].ok
    /\ self.handle
    /\ self.vendor = <<"R">>

(***************************************************************************)
(* Closing a session: close(), __exit__ (which calls close()) and the      *)
(* output switches of the generators.                                      *)
(***************************************************************************)
\* with ...: leaves the block
Exit ==
    /\ \E o \in (CASE drv = "SA" -> SA_close(Start)
                   [] drv = "VNA" -> VNA_close(Start)
                   [] drv = "AWG" -> AWG_close(Start)
                   [] drv = "LO" -> LO_close(Start)) :
           Commit(o)
    /\ call' = [op |-> "__exit__"]
    /\ UNCHANGED <<drv, self>>

EnableOutput ==
    /\ drv \in {"AWG", "LO"}
    /\ \/ /\ drv = "AWG"
          /\ \E ch \in {1, 2}, state \in BOOLEAN :
                 /\ \E o \in AWG_enable_output(Start, ch, state) : Commit(o)
                 /\ call' = [op |-> "enable_output", channel |-> ch, state |-> state]
       \/ /\ drv = "LO"
          /\ \E state \in BOOLEAN :
                 /\ \E o \in LO_enable_output(Start, state) : Commit(o)
                 /\ call' = [op |-> "enable_output", channel |-> 0, state |-> state]
    /\ UNCHANGED <<drv, self>>

Open ==
    /\ drv \in {"AWG", "LO"}
    /\ \E o \in (IF drv = "AWG" THEN AWG_open(Start) ELSE LO_open(Start)) : Commit(o)
    /\ call' = [op |-> "open"]
    /\ UNCHANGED <<drv, self>>

InitClose ==
    /\ drv \in {"SA", "VNA", "AWG", "LO"}
    /\ inst = Instrument({1, 2, 3})
    /\ Constructed

NextClose == Close \/ Exit \/ EnableOutput \/ Open

SpecClose == InitClose /\ [][NextClose]_vars

\* the step is a close() (directly or from __exit__)
CloseCall == call'.op \in {"close", "__exit__"}

\* C7: close() on a session whose handle is already closed does not raise.
C7_CloseOnClosedNeverRaises ==
    [][~inst.open /\ CloseCall => res'.exc = NoExc]_vars

OutputOff(k, ch) ==
    log'[k] = Ev("write", Cmd(":OUTP OFF", ch, 0), TRUE)

\* C8: a close() of the waveform generator that releases the handle has
\* written output OFF for channel 1, then for channel 2, then closed the
\* handle, and nothing else; a close() of the signal generator that releases
\* the handle has written RF output OFF, then closed the handle; the outputs
\* are off at the release, and no call on a released handle gets a write
\* through.
C8_OutputsOffBeforeRelease ==
    [][/\ (drv = "AWG" /\ CloseCall /\ inst.open /\ ~inst'.open =>
              /\ Len(log') = 3
              /\ OutputOff(1, 1) /\ OutputOff(2, 2)
              /\ log'[3] = Ev("close", NoCmd, TRUE)
              /\ inst'.outs = {})
       /\ (drv = "LO" /\ CloseCall /\ inst.open /\ ~inst'.open =>
              /\ Len(log') = 2
              /\ OutputOff(1, 0)
              /\ log'[2] = Ev("close", NoCmd, TRUE)
              /\ inst'.outs = {})
       /\ (drv \in {"AWG", "LO"} /\ ~inst.open =>
              \A k \in 1..Len(log') : log'[k].op = "write" => ~log'[k].ok)]_vars

\* the waveform generator closed by close(): two writes, then the release
C8_Witness ==
    /\ drv = "AWG"
    /\ call.op = "close"
    /\ ~inst.open
    /\ res.exc = NoExc
    /\ Len(log) = 3
    /\ log[3] = Ev("close", NoCmd, TRUE)

\* C21: every close() of an open session attempts to close the handle, and on
\* the spectrum analyzer and the network analyzer the resource manager as
\* well, whatever step of it fails.
C21_CloseAlwaysReleases ==
    [][inst.open /\ CloseCall =>
           /\ \E k \in 1..Len(log') : log'[k].op = "close"
           /\ (drv \in {"SA", "VNA"} =>
                  \E k \in 1..Len(log') : log'[k].op = "rmclose")]_vars

\* the same of the spectrum analyzer and the network analyzer alone
SA_CloseAlwaysReleases ==
    [][(drv \in {"SA", "VNA"}) /\ inst.open /\ CloseCall =>
           /\ \E k \in 1..Len(log') : log'[k].op = "close"
           /\ (\E k \in 1..Len(log') : log'[k].op = "rmclose")]_vars

(***************************************************************************)
(* Single writes and queries through each driver.                          *)
(***************************************************************************)
SentCmds == {Cmd("*CLS", 0, 0), Cmd("FREQ:STAR", 0, 1)}

AskedCmds == {Cmd("*IDN?", 0, 0), Cmd("FREQ:STOP?", 0, 0)}

\* write(cmd) of SpectrumAnalyzer and VNA
Write ==
    /\ drv \in {"SA", "VNA"}
    /\ \E c \in SentCmds :
           /\ \E o \in (IF drv = "SA" THEN SA_write(Start, c) ELSE VNA_write(Start, c)) :
                  Commit(o)
           /\ call' = [op |-> "write", cmd |-> c]
    /\ UNCHANGED <<drv, self>>

\* query(cmd) of SpectrumAnalyzer and VNA
Query ==
    /\ drv \in {"SA", "VNA"}
    /\ \E c \in AskedCmds :
           /\ \E o \in (IF drv = "SA" THEN SA_query(Start, c) ELSE VNA_query(Start, c)) :
                  Commit(o)
           /\ call' = [op |-> "query", cmd |-> c]
    /\ UNCHANGED <<drv, self>>

GetFrequency ==
    /\ drv = "LO"
    /\ \E o \in LO_get_frequency(Start) : Commit(o)
    /\ call' = [op |-> "get_frequency"]
    /\ UNCHANGED <<drv, self>>

InitTransport ==
    /\ drv \in {"SA", "VNA", "AWG", "LO"}
    /\ inst \in {Instrument(d) : d \in {{1, 2, 3}, {2}}}
    /\ Constructed

NextTransport == Write \/ Query \/ EnableOutput \/ GetFrequency \/ Close

SpecTransport == InitTransport /\ [][NextTransport]_vars

\* C15: a call whose write or query failed at the transport of an open
\* handle ends in the wrapped error that carries the command that failed.
C15_TransportErrorsWrapped ==
    /\ call.op \in {"write", "query", "enable_output", "get_frequency"}
    /\ inst.open
    /\ log # <<>>
    /\ ~log[Len(log)].ok
    => res.exc = RuntimeError(log[Len(log)].cmd, Len(log))

\* what holds of SpectrumAnalyzer and VNA
SA_TransportErrorsWrapped == drv \in {"SA", "VNA"} => C15_TransportErrorsWrapped

(***************************************************************************)
(* The marker delta of the spectrum analyzer.                              *)
(***************************************************************************)
GetDeltaReading ==
    /\ drv = "SA"
    /\ \E ref \in Markers, del \in Markers :
           /\ ref # del
           /\ \E o \in get_delta_reading(Start, ref, del) : Commit(o)
           /\ call' = [op |-> "get_delta_reading", ref |-> ref, del |-> del]
    /\ UNCHANGED <<drv, self>>

\* marker positions, and delta readouts: none, numbers, a malformed Y
MarkerPairs == {<<<<1, 5>>, <<3, 2>>>>, <<<<2, 0>>, <<2, 7>>>>}

DeltaReadouts == {<<>>, <<<<"9">>, <<"4">>>>, <<<<"9">>, <<"a">>>>}

InitDelta ==
    /\ drv = "SA"
    /\ \E m \in MarkerPairs, r \in DeltaReadouts :
           inst = [Instrument({1, 2, 3}) EXCEPT !.mark = m, !.delta = r]
    /\ Constructed

NextDelta == GetDeltaReading

SpecDelta == InitDelta /\ [][NextDelta]_vars

IsDirect(e) == Fn(e.cmd.hdr) \in {"delta x?", "delta y?"}

IsMarkerRead(e) == Fn(e.cmd.hdr) \in {"marker x?", "marker y?"}

\* the direct reading went through: both readouts answered with numbers
DirectOk ==
    /\ \E k \in 1..Len(log) :
           Fn(log[k].cmd.hdr) = "delta x?" /\ log[k].ok /\ FloatOk(log[k].reply)
    /\ \E k \in 1..Len(log) :
           Fn(log[k].cmd.hdr) = "delta y?" /\ log[k].ok /\ FloatOk(log[k].reply)

\* C16: get_delta_reading asks the delta readout first and the markers only
\* after it; a direct reading that went through is returned with no marker
\* read; otherwise the result is (x_del - x_ref, y_del - y_ref) of the
\* markers as read, and the call raises only when a marker read failed.
C16_DeltaDirectThenFallback ==
    call.op = "get_delta_reading" =>
        /\ log # <<>> /\ Fn(log[1].cmd.hdr) = "delta x?" /\ log[1].cmd.idx = call.del
        /\ \A j \in 1..Len(log), k \in 1..Len(log) :
               IsMarkerRead(log[j]) /\ IsDirect(log[k]) => k < j
        /\ DirectOk =>
               /\ res.exc = NoExc
               /\ res.val = <<FloatVal(inst.delta[1]), FloatVal(inst.delta[2])>>
               /\ \A k \in 1..Len(log) : ~IsMarkerRead(log[k])
        /\ ~DirectOk /\ res.exc = NoExc =>
               res.val = <<inst.mark[call.del][1] - inst.mark[call.ref][1],
                           inst.mark[call.del][2] - inst.mark[call.ref][2]>>
        /\ res.exc # NoExc =>
               /\ ~DirectOk
               /\ IsMarkerRead(log[Len(log)]) /\ ~log[Len(log)].ok

\* the readout's Y was malformed and the markers were read instead
C16_Witness ==
    /\ call = [op |-> "get_delta_reading", ref |-> 1, del |-> 2]
    /\ inst.delta = <<<<"9">>, <<"a">>>>
    /\ \E k \in 1..Len(log) : Fn(log[k].cmd.hdr) = "delta y?" /\ log[k].ok
    /\ inst.mark = <<<<1, 5>>, <<3, 2>>>>
    /\ res = [exc |-> NoExc, val |-> <<2, -3>>]

(***************************************************************************)
(* Setters, getters and changes made at the instrument itself.             *)
(***************************************************************************)
GetStartStop ==
    /\ drv = "SA"
    /\ \E o \in get_start_stop(Start) : Commit(o)
    /\ call' = [op |-> "get_start_stop"]
    /\ UNCHANGED <<drv, self>>

GetMarkerXY ==
    /\ drv \in {"SA", "VNA"}
    /\ \E idx \in Markers :
           /\ \E o \in (IF drv = "SA" THEN get_marker_xy(Start, idx)
                        ELSE VNA_get_marker_xy(Start, idx)) : Commit(o)
           /\ call' = [op |-> "get_marker_xy", idx |-> idx]
    /\ UNCHANGED <<drv, self>>

\* the operator sets a span or moves the markers at the front panel; the
\* panel reaches one step above the frequencies the setters are called with
Panel ==
    /\ inst.open
    /\ \/ \E a \in Freqs, b \in 1..(MaxFreq + 1) :
              /\ a < b
              /\ inst' = [inst EXCEPT !.start = a, !.stop = b]
       \/ \E m \in MarkerPairs : inst' = [inst EXCEPT !.mark = m]
    /\ call' = [op |-> "front panel"]
    /\ log' = <<>>
    /\ res' = [exc |-> NoExc, val |-> NoVal]
    /\ UNCHANGED <<drv, self>>

InitCache ==
    /\ drv \in {"SA", "VNA"}
    /\ inst = Instrument({1, 2, 3})
    /\ Constructed

NextCache == SetSpan \/ SetMarkerX \/ GetStartStop \/ GetMarkerXY \/ Panel

SpecCache == InitCache /\ [][NextCache]_vars

\* the call's log holds an answered query for the reading fn
Answers(l, fn) == \E k \in 1..Len(l) : l[k].ok /\ Fn(l[k].cmd.hdr) = fn

Amplitudes == {-2, 0, 1, 2, 3}

SetSin ==
    /\ drv = "AWG"
    /\ \E ch \in {1, 2}, amp \in Amplitudes, phase \in {0, 90} :
           /\ \E o \in AWG_set_sin(Start, ch, amp, phase) : Commit(o)
           /\ call' = [op |-> "set_sin", channel |-> ch, amplitude |-> amp, phase |-> phase]
    /\ UNCHANGED <<drv, self>>

SetAmplitude ==
    /\ drv = "AWG"
    /\ \E ch \in {1, 2}, amp \in Amplitudes :
           /\ \E o \in AWG_set_amplitude(Start, ch, amp) : Commit(o)
           /\ call' = [op |-> "set_amplitude", channel |-> ch, amplitude |-> amp]
    /\ UNCHANGED <<drv, self>>

SetupArbitraryWaveform ==
    /\ drv = "AWG"
    /\ \E ch \in {1, 2}, amp \in Amplitudes :
           /\ \E o \in AWG_setup_arbitrary_waveform(Start, ch, 1, amp, 0) : Commit(o)
           /\ call' = [op |-> "setup_arbitrary_waveform", channel |-> ch, amplitude |-> amp]
    /\ UNCHANGED <<drv, self>>

InitAmplitude ==
    /\ drv = "AWG"
    /\ inst = Instrument({1, 2, 3})
    /\ Constructed

NextAmplitude == SetSin \/ SetAmplitude \/ SetupArbitraryWaveform

SpecAmplitude == InitAmplitude /\ [][NextAmplitude]_vars

\* C20: no command written to the waveform generator carries an amplitude
\* below the minimum.
C20_AmplitudeAtLeastMinimum ==
    \A k \in 1..Len(log) :
        log[k].op = "write" /\ log[k].ok /\ Fn(log[k].cmd.hdr) = "amplitude" =>
            log[k].cmd.arg >= MinAmplitude

\* what holds of set_sin
SetSinAtLeastMinimum == call.op = "set_sin" => C20_AmplitudeAtLeastMinimum

(***************************************************************************)
(* Switching markers on and off.                                           *)
(***************************************************************************)
SetMarker ==
    /\ drv \in {"SA", "VNA"}
    /\ \E idx \in 1..MaxMarkers, on \in BOOLEAN :
           /\ \E o \in (IF drv = "SA" THEN SA_set_marker(Start, idx, on)
                        ELSE VNA_set_marker(Start, idx, on)) : Commit(o)
           /\ call' = [op |-> "set_marker", idx |-> idx, on |-> on]
    /\ UNCHANGED <<drv, self>>

ClearMarkers ==
    /\ drv \in {"SA", "VNA"}
    /\ \E m \in 0..MaxMarkers :
           /\ \E o \in (IF drv = "SA" THEN SA_clear_markers(Start, m)
                        ELSE VNA_clear_markers(Start, m)) : Commit(o)
           /\ call' = [op |-> "clear_markers", max |-> m]
    /\ UNCHANGED <<drv, self>>

InitMarkers ==
    /\ drv \in {"SA", "VNA"}
    /\ inst = Instrument({1, 2, 3})
    /\ Constructed

NextMarkers == SetMarker \/ ClearMarkers

SpecMarkers == InitMarkers /\ [][NextMarkers]_vars

\* an OFF command for marker i was attempted
OffAttempted(i) ==
    \E k \in 1..Len(log) :
        log[k].op = "write" /\ Fn(log[k].cmd.hdr) = "marker off" /\ log[k].cmd.idx = i

\* C23: clear_markers(max_markers) has attempted an OFF command for every
\* marker 1..max_markers and has not raised.
C23_EveryMarkerAttempted ==
    call.op = "clear_markers" =>
        res.exc = NoExc /\ \A i \in 1..call.max : OffAttempted(i)

\* what holds of clear_markers: it never raises, its attempts go up through
\* the markers from 1 without a gap, and it stops at the first marker whose
\* OFF command failed
ClearMarkersStopsAtFailure ==
    call.op = "clear_markers" =>
        /\ res.exc = NoExc
        /\ \A k \in 1..Len(log) :
               /\ log[k].op = "write" /\ Fn(log[k].cmd.hdr) = "marker off"
               /\ log[k].cmd.idx \in 1..call.max
               /\ log[k].cmd.idx = (IF k = 1 THEN 1
                                     ELSE IF log[k - 1].ok THEN log[k - 1].cmd.idx + 1
                                     ELSE log[k - 1].cmd.idx)
        /\ (\A i \in 1..call.max : OffAttempted(i))
               \/ (Len(log) > 0 /\ ~log[Len(log)].ok)

(***************************************************************************)
(* Sweeps and resets.                                                      *)
(***************************************************************************)
SingleSweep ==
    /\ drv = "SA"
    /\ \E wait \in BOOLEAN :
           /\ \E o \in SA_single_sweep(Start, wait) : Commit(o)
           /\ call' = [op |-> "single_sweep", wait |-> wait]
    /\ UNCHANGED <<drv, self>>

Reset ==
    /\ drv \in {"SA", "VNA"}
    /\ \E wait \in BOOLEAN :
           /\ \E o \in (IF drv = "SA" THEN SA_reset(Start, wait)
                        ELSE VNA_reset(Start, wait)) : Commit(o)
           /\ call' = [op |-> "reset", wait |-> wait]
    /\ UNCHANGED <<drv, self>>

InitSweep ==
    /\ drv \in {"SA", "VNA"}
    /\ inst \in {Instrument(d) : d \in {{1, 2, 3}, {2}}}
    /\ Constructed

NextSweep == SingleSweep \/ Reset \/ SetSpan \/ Close

SpecSweep == InitSweep /\ [][NextSweep]_vars

\* the place of a step in single_sweep (continuous off, sweep start,
\* operation complete) and in reset (*CLS, *RST, operation complete)
Step(e) ==
    CASE e.op = "write" /\ Fn(e.cmd.hdr) \in {"continuous off", "cls"} -> 1
      [] e.op = "write" /\ Fn(e.cmd.hdr) \in {"sweep", "rst"} -> 2
      [] e.op = "query" /\ Fn(e.cmd.hdr) = "opc?" -> 3
      [] OTHER -> 0

\* the steps a call takes, in the words of its own commands
StepsOf(op) ==
    IF op = "single_sweep" THEN {"continuous off", "sweep", "opc?"}
    ELSE {"cls", "rst", "opc?"}

\* C24: single_sweep attempts continuous off first, starts the sweep only
\* after a continuous-off write went through, and asks for operation complete
\* only when wait is true and only right after a sweep start went through;
\* reset does the same with *CLS, *RST and the operation-complete query; a
\* call that returns has had its last step go through: the reply to the
\* query when wait is true, the sweep start (or *RST) when it is not.
C24_StepsInOrder ==
    call.op \in {"single_sweep", "reset"} =>
        /\ Len(log) >= 1
        /\ Step(log[1]) = 1
        /\ \A k \in 1..Len(log) :
               /\ Step(log[k]) \in 1..3
               /\ Fn(log[k].cmd.hdr) \in StepsOf(call.op)
               /\ (Step(log[k]) = 3 => call.wait)
               /\ (k > 1 =>
                      \/ Step(log[k]) = Step(log[k - 1]) /\ ~log[k - 1].ok
                      \/ Step(log[k]) = Step(log[k - 1]) + 1 /\ log[k - 1].ok)
        /\ (res.exc = NoExc <=>
                /\ log[Len(log)].ok
                /\ Step(log[Len(log)]) = (IF call.wait THEN 3 ELSE 2))
        /\ (res.exc = NoExc /\ call.wait => log[Len(log)].reply # NoVal)

\* single_sweep(wait=True) returned: continuous off went through at its
\* second spelling, then the sweep start, then the query got its reply
C24_Witness ==
    /\ call = [op |-> "single_sweep", wait |-> TRUE]
    /\ res.exc = NoExc
    /\ Len(log) = 4
    /\ ~log[1].ok /\ Step(log[2]) = 1 /\ log[2].ok
    /\ Step(log[3]) = 2 /\ log[3].ok
    /\ Step(log[4]) = 3 /\ log[4].ok

(***************************************************************************)
(* frequency_sweep and power_sweep of the signal generator.  The loop is   *)
(* taken one iteration at a time: call holds the arguments, the loop       *)
(* variable (current_freq, current_power), the parity of the number of     *)
(* iterations made and where the call stands, and log holds the write of   *)
(* the iteration just made.                                                *)
(***************************************************************************)
SweepOps == {"frequency_sweep", "power_sweep"}

\* start, stop and step of a sweep
SweepArgs == (-1)..MaxFreq

\* every value of the loop variable at or below the floor stands for itself
\* and all values further down
SweepFloor == -(MaxFreq + 2)

InLoop == call.op \in SweepOps /\ call.pc = "loop"

\* current_freq = start_freq (current_power = start_power)
StartSweep ==
    /\ ~InLoop
    /\ \E op \in SweepOps, a \in SweepArgs, b \in SweepArgs, st \in SweepArgs :
           call' = [op |-> op, start |-> a, stop |-> b, step |-> st,
                    current |-> a, odd |-> FALSE, pc |-> "loop"]
    /\ log' = <<>>
    /\ res' = [exc |-> NoExc, val |-> NoVal]
    /\ UNCHANGED <<drv, inst, self>>

\* while current <= stop: set_frequency(current) (set_power(current)), sleep,
\* current += step; an exception from the write leaves the call
SweepStep ==
    /\ InLoop
    /\ IF call.current <= call.stop
       THEN \E o \in (IF call.op = "frequency_sweep"
                       THEN LO_set_frequency(Start, call.current)
                       ELSE LO_set_power(Start, call.current)) :
                /\ Commit(o)
                /\ call' = IF Raised(o) THEN [call EXCEPT !.pc = "raised"]
                           ELSE [call EXCEPT !.odd = ~@, !.current =
                                     IF @ + call.step < SweepFloor THEN SweepFloor
                                     ELSE @ + call.step]
       ELSE /\ call' = [call EXCEPT !.pc = "returned"]
            /\ log' = <<>>
            /\ UNCHANGED <<inst, res>>
    /\ UNCHANGED <<drv, self>>

InitLoop ==
    /\ drv = "LO"
    /\ inst = Instrument({1, 2, 3})
    /\ Constructed

NextLoop == StartSweep \/ SweepStep

\* a call that has started goes on running
SpecLoop == InitLoop /\ [][NextLoop]_vars /\ WF_vars(SweepStep)

\* C25: frequency_sweep and power_sweep return (or raise) after finitely many
\* writes, for every start, stop and step.
C25_SweepTerminates == InLoop ~> ~InLoop

\* what holds of the sweeps: a sweep with a positive step, or with start
\* above stop, comes to its end
PositiveStepTerminates ==
    (InLoop /\ (call.step > 0 \/ call.start > call.stop)) ~> ~InLoop

\* and every iteration writes the loop variable, which is at most stop, and
\* nothing else; the first write carries start, each later one the value
\* before it plus step
SweepWritesInOrder ==
    [][InLoop /\ call'.pc # "returned" =>
          /\ Len(log') = 1
          /\ log'[1].op = "write"
          /\ log'[1].cmd.hdr = (IF call.op = "frequency_sweep" THEN ":FREQ" ELSE ":POW")
          /\ log'[1].cmd.arg = call.current
          /\ call.current <= call.stop
          /\ (log = <<>> => call.current = call.start)
          /\ (log # <<>> /\ call.current > SweepFloor =>
                  call.current = log[1].cmd.arg + call.step)]_vars

====
